---- MODULE Spec2Model ----
(***************************************************************************)
(* Model of the CodeBeats synthesis core: the voice pool AudioState of     *)
(* src/audio_engine.rs (string-identifier voices, sample playbacks, rate   *)
(* limiter) and the two threads of src/lib.rs that share it behind one     *)
(* mutex.                                                                  *)
(*                                                                         *)
(* Numbers.  The code computes in f32 seconds; the model computes in       *)
(* integers:                                                               *)
(*   - times (envelope_time, ADSR times, global_time, wall clock) are      *)
(*     milliseconds, dt = 1000 \div sample_rate;                           *)
(*   - levels in [0,1] (sustain_level, envelope multiplier, master volume, *)
(*     requested volume, rate-limit multiplier) are thousandths;           *)
(*   - base_volume = volume * master_volume * multiplier is kept as the    *)
(*     product of three thousandths, i.e. in units of 1e-9;                *)
(*   - current_hold_volume and target_hold_volume are in units of 1e-4;    *)
(*   - phase is in thousandths of a cycle.                                 *)
(* An f32 accumulator x += dt stops changing once dt is below half an ulp  *)
(* of x; AccCap is the value at which the model's accumulators absorb dt.  *)
(***************************************************************************)
EXTENDS Integers, Sequences, FiniteSets, TLC

\* ------------------------------------------------------------------ inputs

\* Identifiers the input layer passes to note_on / note_off.
Ids == {"a", "b"}
\* The identifier used where every operation of the pool is interleaved.
KeyIds == {"a"}

\* The waveform kinds AudioState::new matches on.
AllWaveforms == {"Natural", "Electronic", "Saw", "Square", "Cyberpunk", "Harmonic",
                 "Sine", "Sawtooth", "Triangle", "Fart"}
\* Waveform kinds used where set_waveform is interleaved with the other operations.
Waveforms == {"Electronic", "Fart"}

\* Output sample rates (Hz) the pool is constructed with.
SampleRates == {10}
NoteSampleRates == {10, 20}

\* Frequencies (Hz) and volumes (thousandths) handed to note_on.
Frequencies == {5}
Volumes == {1000}

\* Volumes (thousandths) handed to set_volume; 1500 is out of range.
SetVolumes == {0, 1500}

\* Master volume (thousandths) handed to the constructor.
InitVolumes == {1000}
\* master_volume arguments of AudioState::new over the range of an f32, and
\* frequencies below and above the sample rate, thousandths and Hz.
ConstructorVolumes == {-500, 1000, 1500}
\* Time between two triggers of a limiter, ms: around the 500 ms window, and
\* below the 150 ms minimum interval.
LimiterSteps == {250}
\* PCM buffers (thousandths) of length 0 to 5, mono and stereo, with their
\* native rates; target rates, start times and volumes of a playback; and the
\* times it is sampled at, ms: before the start, inside the buffer on and
\* between frames, at and past its end, and far beyond it.
SampleBuffers == {<< >>, <<1000>>, <<1000, 500>>, <<1000, 500, 0>>,
                  <<1000, 500, 0, -500, -1000>>}
SampleNativeRates == {5, 10}
SampleAssets ==
    {[samples |-> buffer, sample_rate |-> rate, channels |-> channels] :
        buffer \in SampleBuffers, rate \in SampleNativeRates, channels \in {1, 2}}
SampleTargetRates == {5, 10}
\* A buffer of six samples read as six, three or two whole frames.
ChannelBuffers == {<<900, 600, 0, -600, -900, 300>>}
ChannelAssets ==
    {[samples |-> buffer, sample_rate |-> rate, channels |-> channels] :
        buffer \in ChannelBuffers, rate \in SampleNativeRates, channels \in {1, 2, 3}}
StartTimes == {0, 100}
PlaybackVolumes == {800}
SampleTimes == {-50, 0, 50, 100, 150, 200, 300, 500, 1000, 3200, 6400, 25600}
RunSteps == {125}
\* The kinds of src/waveforms.rs, and the arguments generate_sample is given:
\* phases in thousandths of a cycle, and frequencies and sample rates as
\* powers of ten (Hz), from 1e-36 Hz up to half the sample rate.
WaveformKinds == {"Natural", "Electronic", "Saw", "Square", "Cyberpunk", "Triangle",
                  "Fart", "Bass"}
WavePhases == {0, 250, 500, 999}
FrequencyExponents == {-36, -1, 2, 3}
RateExponents == {4, 5}
\* Keys that are not letters, which the detector ignores.
OtherKeys == {"Space", "Key1"}
\* What is typed in one stretch: nothing, noise letters (one, or more than
\* the detector's history holds), the start of the sequence up to its sixth
\* or its last but one letter, or the whole sequence.
NoiseLengths == {1, 51}
PrefixLengths == {6, 21}
\* Wall-clock time between two calls on a held voice, ms: within a step of the
\* attenuation schedule and across several.
HoldSteps == {500, 1500}
\* Sample rates (Hz) of the pool a voice is held in: the step 0.5 / rate divides
\* the distances between the targets (10) or does not (4).
HoldSampleRates == {4, 10}
\* Time between two presses given to a KeyRateLimiter, ms: half its 150 ms
\* minimum interval, so that presses come 75, 150, 225, ... ms apart.
StartSteps == {75}
RangeFrequencies == {5, 15}

\* Lengths of the buffer the output callback is asked to fill.
BufferSizes == {1, 2}

\* Wall-clock steps (ms) between two observations of Instant::now().
ClockSteps == {600}

\* ADSR parameters a caller hands to NoteState::new: times in ms (zero and
\* negative ones included), sustain levels in thousandths.
AttackTimes == {-50, 0, 200}
DecayTimes == {-50, 0, 200}
SustainLevels == {0, 800, 1000}
ReleaseTimes == {0, 200}
\* Sample rate (Hz) of the pool whose voices are given those parameters.
VoiceSampleRates == {20}

\* ------------------------------------------------------------------ bounds

\* The wall clock advances at most MaxNowSteps times by a ClockStep.
MaxNowSteps == 1
\* note_on is not taken once an identifier has this many presses in its window.
MaxHistory == 2
\* note_on under Fart is not taken once this many playbacks are active.
MaxPlaybacks == 2
\* Value (ms) at which an f32 time accumulator absorbs dt; it is not below the
\* longest ADSR time, as in the code (about 512 s at 44.1 kHz).
AccCap == 300
\* A limiter is not triggered once an identifier has MaxRun presses in its
\* window (RateLimiter) or in its run (KeyRateLimiter), and the clock of the
\* limiters on their own stops at MaxLimiterTime and MaxRunTime, ms.
MaxRun == 6
MaxLimiterTime == 1250
MaxRunTime == 625
\* The clock of a held voice stops at MaxHoldTime, ms (past the last step of
\* the attenuation schedule at 5 s).
MaxHoldTime == 5500
\* The clock of the KeyRateLimiter under start_note stops at MaxStartTime, ms.
MaxStartTime == 450
\* Value (thousandths of a cycle) at which the f32 phase absorbs its increment.
PhaseCap == 4000

\* ------------------------------------------------------------------ state

VARIABLES
    active_notes_by_id,       \* AudioState.active_notes_by_id : id -> NoteState
    sample_rate,              \* AudioState.sample_rate
    current_waveform,         \* AudioState.current_waveform
    default_adsr,             \* AudioState.default_adsr
    master_volume,            \* AudioState.master_volume
    press_history,            \* AudioState.rate_limiter.press_history
    fart_sample,              \* AudioState.fart_sample : Option, << >> or <<sample>>
    active_sample_playbacks,  \* AudioState.active_sample_playbacks
    global_time,              \* AudioState.global_time
    now,                      \* the wall clock read by Instant::now()
    last_call,                \* the last pool operation and what it returned
    mutex,                    \* holder of Arc<Mutex<AudioState>>: "free", "input", "audio"
    input_pc,                 \* position of the input thread
    audio_pc,                 \* position of the audio callback
    buffer_left,              \* samples of the callback's buffer still to fill
    ticked,                   \* per voice, what its last tick was given and returned
    key_rate_limiter,         \* a KeyRateLimiter: last_press_times, press_counts
    trigger_log,              \* per identifier, every instant a limiter was triggered at
    sample_playback,          \* a SamplePlayback on its own: Option
    sampled,                  \* the last call on that playback and its outcome
    active_notes,             \* audio/engine.rs AudioState.active_notes : Keycode -> NoteState
    sequence_detector,        \* a SequenceDetector: input_history, recently_triggered,
                              \* reset_counter
    keys_to_type,             \* the keys the typist has still to press
    key_log,                  \* every letter given to process_input and what it returned
    wave_sample               \* the last Waveform::generate_sample call and its outcome

poolVars == <<active_notes_by_id, sample_rate, current_waveform, default_adsr,
              master_volume, press_history, fart_sample, active_sample_playbacks,
              global_time, last_call>>
threadVars == <<mutex, input_pc, audio_pc, buffer_left>>
detectorVars == <<sequence_detector, keys_to_type, key_log>>
unitVars == <<key_rate_limiter, trigger_log, sample_playback, sampled, active_notes,
              detectorVars, wave_sample>>
vars == <<poolVars, now, threadVars, ticked, unitVars>>

\* ------------------------------------------------------------------ helpers

\* Option<T>: None, Some(x).
None == << >>
Some(x) == <<x>>

Min(a, b) == IF a <= b THEN a ELSE b
Max(a, b) == IF a >= b THEN a ELSE b

\* dt = 1.0 / sample_rate, in ms.
Dt(rate) == 1000 \div rate

\* x += d on an f32 time accumulator: absorbed once x has reached the cap.
Acc(x, d) == IF x >= AccCap THEN x ELSE x + d

\* ------------------------------------------------------------------ ADSRParams

ADSR(a, d, s, r) ==
    [attack_time |-> a, decay_time |-> d, sustain_level |-> s, release_time |-> r]

natural == ADSR(20, 100, 700, 150)
electronic == ADSR(10, 50, 800, 100)
punchy == ADSR(5, 20, 600, 80)
cyberpunk == ADSR(30, 150, 650, 250)
fart == ADSR(10, 80, 750, 300)

\* The match of AudioState::new that picks default_adsr from the waveform.
DefaultADSR(waveform) ==
    CASE waveform = "Natural" -> natural
      [] waveform = "Electronic" -> electronic
      [] waveform \in {"Saw", "Square"} -> punchy
      [] waveform = "Cyberpunk" -> cyberpunk
      [] waveform = "Harmonic" -> natural
      [] waveform = "Sine" -> electronic
      [] waveform = "Sawtooth" -> punchy
      [] waveform = "Triangle" -> electronic
      [] waveform = "Fart" -> fart

\* ------------------------------------------------------------------ NoteState

EnvelopeStates == {"Attack", "Decay", "Sustain", "Release"}

\* NoteState::new
NoteState_new(frequency, volume, adsr_params, waveform, instant) ==
    [frequency |-> frequency,
     base_volume |-> volume,
     phase |-> 0,
     envelope_state |-> "Attack",
     envelope_time |-> 0,
     adsr |-> adsr_params,
     waveform |-> waveform,
     start_time |-> instant,
     current_hold_volume |-> 10000,
     target_hold_volume |-> 10000]

\* progress >= 1.0 where progress = envelope_time / release_time (f32: x/0 = +inf
\* for x > 0, and a negative release_time gives a negative progress).
ReleaseDone(note) ==
    IF note.adsr.release_time > 0
    THEN note.envelope_time >= note.adsr.release_time
    ELSE note.adsr.release_time = 0 /\ note.envelope_time > 0

\* sustain_level * (1.0 - progress * progress), thousandths.
ReleaseCurve(note) ==
    (note.adsr.sustain_level
        * (note.adsr.release_time * note.adsr.release_time
             - note.envelope_time * note.envelope_time))
      \div (note.adsr.release_time * note.adsr.release_time)

\* The arms of the match in NoteState::update_envelope, on the note whose
\* envelope_time has been advanced: the note they leave and the multiplier
\* (thousandths) they return.
\* Mutant of AttackArm: the attack ends only once its time is exceeded.
AttackArmLate(note) ==
    IF note.envelope_time > note.adsr.attack_time
    THEN [note |-> [note EXCEPT !.envelope_state = "Decay", !.envelope_time = 0],
          multiplier |-> 1000]
    ELSE [note |-> note,
          multiplier |-> IF note.adsr.attack_time = 0 THEN 1000
                         ELSE (note.envelope_time * note.envelope_time * 1000)
                                  \div (note.adsr.attack_time * note.adsr.attack_time)]

AttackArm(note) ==
    IF note.envelope_time >= note.adsr.attack_time
    THEN [note |-> [note EXCEPT !.envelope_state = "Decay", !.envelope_time = 0],
          multiplier |-> 1000]
    ELSE [note |-> note,
          multiplier |-> (note.envelope_time * note.envelope_time * 1000)
              \div (note.adsr.attack_time * note.adsr.attack_time)]

\* Mutant of DecayArm: the end of the decay restarts the attack.
DecayArmRestarts(note) ==
    IF note.envelope_time >= note.adsr.decay_time
    THEN [note |-> [note EXCEPT !.envelope_state = "Attack", !.envelope_time = 0],
          multiplier |-> note.adsr.sustain_level]
    ELSE [note |-> note, multiplier |-> 1000]

\* Mutant of DecayArm: the decay is added to the peak instead of subtracted.
DecayArmSignSlip(note) ==
    IF note.envelope_time >= note.adsr.decay_time
    THEN [note |-> [note EXCEPT !.envelope_state = "Sustain", !.envelope_time = 0],
          multiplier |-> note.adsr.sustain_level]
    ELSE [note |-> note,
          multiplier |->
              1000 + ((1000 - note.adsr.sustain_level)
                          * note.envelope_time * note.envelope_time)
                  \div (note.adsr.decay_time * note.adsr.decay_time)]

\* Mutant of DecayArm: a decay without duration is never left.
DecayArmPositiveOnly(note) ==
    IF note.adsr.decay_time > 0 /\ note.envelope_time >= note.adsr.decay_time
    THEN [note |-> [note EXCEPT !.envelope_state = "Sustain", !.envelope_time = 0],
          multiplier |-> note.adsr.sustain_level]
    ELSE [note |-> note,
          multiplier |->
              IF note.adsr.decay_time = 0 THEN 1000
              ELSE 1000 - ((1000 - note.adsr.sustain_level)
                              * note.envelope_time * note.envelope_time)
                      \div (note.adsr.decay_time * note.adsr.decay_time)]

DecayArm(note) ==
    IF note.envelope_time >= note.adsr.decay_time
    THEN [note |-> [note EXCEPT !.envelope_state = "Sustain", !.envelope_time = 0],
          multiplier |-> note.adsr.sustain_level]
    ELSE [note |-> note,
          multiplier |->
              1000 - ((1000 - note.adsr.sustain_level)
                          * note.envelope_time * note.envelope_time)
                  \div (note.adsr.decay_time * note.adsr.decay_time)]

\* Mutant of SustainArm: a held note expires once it has sustained for
\* release_time.
SustainArmExpires(note) ==
    IF note.envelope_time >= note.adsr.release_time
    THEN [note |-> [note EXCEPT !.envelope_state = "Release", !.envelope_time = 0],
          multiplier |-> note.adsr.sustain_level]
    ELSE [note |-> note, multiplier |-> note.adsr.sustain_level]

SustainArm(note) == [note |-> note, multiplier |-> note.adsr.sustain_level]

ReleaseArm(note) ==
    IF ReleaseDone(note)
    THEN [note |-> note, multiplier |-> 0]
    ELSE [note |-> note, multiplier |-> ReleaseCurve(note)]

\* NoteState::update_envelope
update_envelope(note0, dt) ==
    LET note == [note0 EXCEPT !.envelope_time = Acc(note0.envelope_time, dt)]
    IN CASE note.envelope_state = "Attack" -> AttackArm(note)
         [] note.envelope_state = "Decay" -> DecayArm(note)
         [] note.envelope_state = "Sustain" -> SustainArm(note)
         [] note.envelope_state = "Release" -> ReleaseArm(note)

\* Mutant of is_finished: a multiplier of exactly 0 does not count.
is_finished_strict(note, envelope_multiplier) ==
    note.envelope_state = "Release" /\ envelope_multiplier < 0

\* NoteState::is_finished
is_finished(note, envelope_multiplier) ==
    note.envelope_state = "Release" /\ envelope_multiplier <= 0

\* Mutant of release: the ramp is restarted on every call.
release_restarts(note) ==
    [note EXCEPT !.envelope_state = "Release", !.envelope_time = 0]

\* NoteState::release
release(note) ==
    IF note.envelope_state # "Release"
    THEN [note EXCEPT !.envelope_state = "Release", !.envelope_time = 0]
    ELSE note

\* The match on hold_duration in update_smooth_hold_volume (units of 1e-4).
TargetHoldVolume(hold_duration) ==
    CASE hold_duration < 500 -> 10000
      [] hold_duration >= 500 /\ hold_duration < 1000 -> 8000
      [] hold_duration >= 1000 /\ hold_duration < 2000 -> 6000
      [] hold_duration >= 2000 /\ hold_duration < 3000 -> 4000
      [] hold_duration >= 3000 /\ hold_duration < 5000 -> 2000
      [] OTHER -> 1000

\* Mutant of update_smooth_hold_volume: the step is not cut off at the target.
update_smooth_hold_volume_overshoot(note, rate, instant) ==
    LET target == TargetHoldVolume(instant - note.start_time)
        max_change_per_sample == 5000 \div rate
        cur == note.current_hold_volume
    IN [note EXCEPT
          !.target_hold_volume = target,
          !.current_hold_volume =
              IF cur < target THEN cur + max_change_per_sample
              ELSE IF cur > target THEN cur - max_change_per_sample
              ELSE cur]

\* NoteState::update_smooth_hold_volume; instant is what start_time.elapsed() reads.
update_smooth_hold_volume(note, rate, instant) ==
    LET target == TargetHoldVolume(instant - note.start_time)
        max_change_per_sample == 5000 \div rate
        cur == note.current_hold_volume
    IN [note EXCEPT
          !.target_hold_volume = target,
          !.current_hold_volume =
              IF cur < target THEN Min(cur + max_change_per_sample, target)
              ELSE IF cur > target THEN Max(cur - max_change_per_sample, target)
              ELSE cur]

\* Mutant of final_sample_factors: the hold volume of the previous tick is used.
final_sample_factors_stale(note0, envelope_multiplier, rate, instant) ==
    [base_volume |-> note0.base_volume,
     envelope |-> envelope_multiplier,
     hold |-> note0.current_hold_volume]

\* NoteState::generate_sample: the factors wave_sample is multiplied by to give
\* final_sample (the hold volume is updated first).
final_sample_factors(note0, envelope_multiplier, rate, instant) ==
    [base_volume |-> note0.base_volume,
     envelope |-> envelope_multiplier,
     hold |-> update_smooth_hold_volume(note0, rate, instant).current_hold_volume]

\* NoteState::generate_sample: the state it leaves (hold volume, phase).
note_generate_sample(note0, rate, instant) ==
    LET note == update_smooth_hold_volume(note0, rate, instant)
        phase == note.phase + (note.frequency * 1000) \div rate
    IN [note EXCEPT !.phase = IF note.phase >= PhaseCap THEN note.phase
                              ELSE IF phase >= 1000 THEN phase - 1000 ELSE phase]

\* ------------------------------------------------------------------ RateLimiter

window_duration == 500
volume_reduction_factor == 700

\* volume_reduction_factor.powf(n), thousandths.
RECURSIVE Powf(_)
Powf(n) == IF n = 0 THEN 1000 ELSE (volume_reduction_factor * Powf(n - 1)) \div 1000

\* history.retain(|t| now.duration_since(t) <= window_duration)
Retain(history, instant) ==
    SelectSeq(history, LAMBDA t : instant - t <= window_duration)

\* Mutant of record_press: the press is pushed before the multiplier is
\* computed, so it counts itself.
record_press_counts_itself(history, instant) ==
    LET kept == Append(Retain(history, instant), instant)
    IN [history |-> kept, multiplier |-> Powf(Len(kept))]

\* RateLimiter::record_press_and_get_volume_multiplier for one key's history.
record_press(history, instant) ==
    LET kept == Retain(history, instant)
    IN [history |-> Append(kept, instant), multiplier |-> Powf(Len(kept))]

\* ------------------------------------------------------------------ samples

\* The decoded effects/fart-quick-short.wav, as the pool sees it.
FartAsset == [samples |-> <<0, 500, 1000, 500>>, sample_rate |-> 20, channels |-> 1]

\* AudioSample::duration_at_sample_rate, ms.
duration_at_sample_rate(sample, target_sample_rate) ==
    (((Len(sample.samples) * 1000) \div (sample.sample_rate * sample.channels))
        * target_sample_rate) \div sample.sample_rate

\* SamplePlayback::new
SamplePlayback_new(sample, start_time, volume) ==
    [sample |-> sample, start_time |-> start_time, volume |-> volume, active |-> TRUE]

\* Mutant of is_finished_at_sample_rate: the sample is finished only after
\* its duration, not at it.
is_finished_after_duration(sample, time, target_sample_rate) ==
    time > duration_at_sample_rate(sample, target_sample_rate)

\* AudioSample::is_finished_at_sample_rate
is_finished_at_sample_rate(sample, time, target_sample_rate) ==
    time >= duration_at_sample_rate(sample, target_sample_rate)

\* SamplePlayback::is_finished
playback_is_finished(playback, current_time, target_sample_rate) ==
    LET elapsed == current_time - playback.start_time
    IN elapsed >= 0
       /\ is_finished_at_sample_rate(playback.sample, elapsed, target_sample_rate)

\* usize is modelled UsizeBits wide (64 on the targets of the crate).
UsizeBits == 6
usize_MAX == 2 ^ UsizeBits - 1

\* What a call on a sample or a playback comes to: the value it returns
\* (thousandths), the indices of the PCM buffer it read, or a panic.
Returned(value, reads) == [value |-> value, reads |-> reads, panicked |-> FALSE]
Panicked(reads) == [value |-> 0, reads |-> reads, panicked |-> TRUE]
NotSampled == [op |-> "none", time |-> 0, outcome |-> Returned(0, {}), finished |-> FALSE]

\* samples[index], the vector being indexed from 0.
At(sample, index) == sample.samples[index + 1]

\* The value of the frame that starts at sample_index, mono: for stereo the
\* mean of the two channels when the second is in the buffer.
FrameValue(sample, sample_index) ==
    IF sample.channels = 2 /\ sample_index + 1 < Len(sample.samples)
    THEN (At(sample, sample_index) + At(sample, sample_index + 1)) \div 2
    ELSE At(sample, sample_index)

FrameReads(sample, sample_index) ==
    IF sample.channels = 2 /\ sample_index + 1 < Len(sample.samples)
    THEN {sample_index, sample_index + 1}
    ELSE {sample_index}

\* sample_pos = time_seconds * (sample_rate / target) * sample_rate, as the
\* fraction SamplePosNum / SamplePosDen of a frame.
SamplePosNum(sample, time) == time * sample.sample_rate * sample.sample_rate
SamplePosDen(target_sample_rate) == 1000 * target_sample_rate

\* AudioSample::get_sample_at_time. `sample_pos as usize` saturates (0 for a
\* negative position, usize::MAX for a large one); the usize products and sums
\* panic on overflow when the build has overflow checks and wrap when not.
get_sample_at_time(sample, time, target_sample_rate, overflow_checks) ==
    LET len == Len(sample.samples)
        num == SamplePosNum(sample, time)
        den == SamplePosDen(target_sample_rate)
        frame_index == IF num < 0 THEN 0 ELSE Min(num \div den, usize_MAX)
        frac == IF num < 0 THEN 0 - ((((0 - num) % den) * 1000) \div den)
                ELSE ((num % den) * 1000) \div den
        sample_product == frame_index * sample.channels
        sample_index == sample_product % (usize_MAX + 1)
        next_frame_sum == frame_index + 1
        next_frame_index == next_frame_sum % (usize_MAX + 1)
        next_product == next_frame_index * sample.channels
        next_sample_index == next_product % (usize_MAX + 1)
        current_sample == FrameValue(sample, sample_index)
        current_reads == FrameReads(sample, sample_index)
        next_sample == FrameValue(sample, next_sample_index)
    IN IF len = 0 THEN Returned(0, {})
       ELSE IF overflow_checks /\ sample_product > usize_MAX THEN Panicked({})
       ELSE IF sample_index >= len THEN Returned(0, {})
       ELSE IF overflow_checks
               /\ (next_frame_sum > usize_MAX \/ next_product > usize_MAX)
       THEN Panicked(current_reads)
       ELSE IF next_sample_index < len
       THEN Returned(current_sample + ((next_sample - current_sample) * frac) \div 1000,
                     current_reads \cup FrameReads(sample, next_sample_index))
       ELSE Returned(current_sample, current_reads)

\* SamplePlayback::get_current_sample
get_current_sample(playback, current_time, target_sample_rate, overflow_checks) ==
    LET elapsed == current_time - playback.start_time
        read == get_sample_at_time(playback.sample, elapsed, target_sample_rate,
                                   overflow_checks)
    IN IF ~playback.active THEN Returned(0, {})
       ELSE IF elapsed < 0 THEN Returned(0, {})
       ELSE IF is_finished_at_sample_rate(playback.sample, elapsed, target_sample_rate)
       THEN Returned(0, {})
       ELSE [read EXCEPT !.value = (@ * playback.volume) \div 1000]

\* Mutant of stop: the flag is flipped.
stop_toggles(playback) == [playback EXCEPT !.active = ~@]

\* SamplePlayback::stop
stop(playback) == [playback EXCEPT !.active = FALSE]

\* ------------------------------------------------------------------ AudioState

\* last_call after an operation that returns nothing.
NoCall == [op |-> "none", id |-> "", ret |-> 0, mixed |-> {},
           samples_to_remove |-> << >>, played |-> << >>]

\* Mutant of Insert: an occupied entry is kept (entry().or_insert semantics).
InsertKeepOld(map, key, value) ==
    [k \in DOMAIN map \cup {key} |-> IF k \in DOMAIN map THEN map[k] ELSE value]

\* Mutant of RemoveAll: the finished keys are collected and never removed.
RemoveNone(map, keys) == map

\* HashMap::insert and HashMap::remove on active_notes_by_id.
Insert(map, key, value) ==
    [k \in DOMAIN map \cup {key} |-> IF k = key THEN value ELSE map[k]]
RemoveAll(map, keys) == [k \in DOMAIN map \ keys |-> map[k]]

\* volume.clamp(0.0, 1.0)
Clamp(volume) == Max(0, Min(volume, 1000))

\* ------------------------------------------------------------------ KeyRateLimiter

\* KeyRateLimiter::new: two empty maps.
KeyRateLimiter_new == [last_press_times |-> << >>, press_counts |-> << >>]

min_interval == 150
reset_interval == 1000

\* Mutant of volume_reduction: the fourth and fifth rapid press are louder than
\* the third.
volume_reduction_rebound(new_count) ==
    CASE new_count = 1 -> 1000
      [] new_count = 2 -> 700
      [] new_count = 3 -> 400
      [] new_count \in 4..5 -> 500
      [] OTHER -> 0

\* The match on new_count in check_key_press, thousandths.
volume_reduction(new_count) ==
    CASE new_count = 1 -> 1000
      [] new_count = 2 -> 700
      [] new_count = 3 -> 400
      [] new_count \in 4..5 -> 200
      [] OTHER -> 0

\* KeyRateLimiter::check_key_press: the limiter it leaves and what it returns.
check_key_press(limiter, keycode, instant) ==
    LET press_count == IF keycode \in DOMAIN limiter.press_counts
                       THEN limiter.press_counts[keycode] ELSE 0
        pressed(count) ==
            [last_press_times |-> Insert(limiter.last_press_times, keycode, instant),
             press_counts |-> Insert(limiter.press_counts, keycode, count)]
    IN IF keycode \in DOMAIN limiter.last_press_times
       THEN LET time_since_last == instant - limiter.last_press_times[keycode]
            IN IF time_since_last < min_interval
               THEN [limiter |-> pressed(press_count + 1),
                     multiplier |-> volume_reduction(press_count + 1)]
               ELSE IF time_since_last > reset_interval
               THEN [limiter |-> pressed(1), multiplier |-> 1000]
               ELSE [limiter |-> pressed(1), multiplier |-> 1000]
       ELSE [limiter |-> pressed(1), multiplier |-> 1000]

\* ------------------------------------------------------------------ Waveform

\* An f32 result is kept as what is known of it: whether it is NaN and, if
\* not, an upper bound of its magnitude in thousandths (the magnitude itself
\* where the code computes it from the phase alone).
NaN == [nan |-> TRUE, bound |-> 0]
Within(bound) == [nan |-> FALSE, bound |-> bound]
NotGenerated == [op |-> "none"]

\* f32::MAX = 3.4028235e38 as 340282 * 10^33: the product m * 10^e of a
\* mantissa below 10^6 and a power of ten rounds to infinity above it.
f32_MAX_mantissa == 340282
f32_MAX_exponent == 33

RECURSIVE Pow10(_)
Pow10(n) == IF n <= 0 THEN 1 ELSE 10 * Pow10(n - 1)

\* m * 10^e as an f32: "zero", "finite" or "inf".
f32_of(m, e) ==
    IF m = 0 THEN "zero"
    ELSE IF e > f32_MAX_exponent + 3 THEN "inf"
    ELSE IF e >= f32_MAX_exponent /\ m * Pow10(e - f32_MAX_exponent) > f32_MAX_mantissa
    THEN "inf"
    ELSE "finite"

\* f32::sin of a value or of a nonzero multiple of it: NaN at infinity.
sin(x) == IF x = "inf" THEN NaN ELSE Within(1000)

\* f32::tanh, and sums, products and multiples (k in thousandths) of results.
tanh(v) == IF v.nan THEN NaN ELSE Within(Min(v.bound, 1000))
Plus(v, w) == IF v.nan \/ w.nan THEN NaN ELSE Within(v.bound + w.bound)
Times(v, w) == IF v.nan \/ w.nan THEN NaN ELSE Within((v.bound * w.bound + 999) \div 1000)
Scaled(v, k) == Times(v, Within(k))

\* `let time = phase * sample_rate / frequency`, phase in thousandths,
\* sample_rate = 10^rate_exponent and frequency = 10^frequency_exponent.
time_of(phase, frequency_exponent, rate_exponent) ==
    f32_of(phase, rate_exponent - frequency_exponent - 3)

\* generate_sine
generate_sine == sin("finite")

\* generate_natural_piano
generate_natural_piano ==
    LET fundamental == sin("finite")
        second_harmonic == Scaled(sin("finite"), 300)
        third_harmonic == Scaled(sin("finite"), 200)
        fourth_harmonic == Scaled(sin("finite"), 100)
        modulated_fundamental == sin("finite")
    IN Plus(Plus(Plus(Plus(Scaled(modulated_fundamental, 700), Scaled(fundamental, 300)),
                      second_harmonic),
                 third_harmonic),
            fourth_harmonic)

\* generate_sawtooth: 2.0 * (phase - phase.floor()) - 1.0
generate_sawtooth(phase) ==
    Within(IF 2 * phase >= 1000 THEN 2 * phase - 1000 ELSE 1000 - 2 * phase)

\* generate_square
generate_square(phase) == Within(1000)

\* generate_triangle
generate_triangle(phase) ==
    LET value == IF phase < 500 THEN 4 * phase - 1000 ELSE 3000 - 4 * phase
    IN Within(IF value >= 0 THEN value ELSE -value)

\* generate_cyberpunk
generate_cyberpunk(phase, frequency_exponent, rate_exponent) ==
    LET time == time_of(phase, frequency_exponent, rate_exponent)
        osc1 == sin("finite")
        osc2 == sin("finite")
        osc3 == sin("finite")
        sub_osc == Scaled(sin("finite"), 300)
        lfo == sin(time)
        lfo_mod == Plus(Scaled(lfo, 100), Within(1000))
        mixed == Plus(Scaled(Plus(Plus(osc1, Scaled(osc2, 800)), Scaled(osc3, 600)), 417),
                      sub_osc)
        modulated == Times(mixed, lfo_mod)
    IN Scaled(tanh(modulated), 800)

\* generate_fart
generate_fart(phase, frequency_exponent, rate_exponent) ==
    LET time == time_of(phase, frequency_exponent, rate_exponent)
        fart_freq == IF frequency_exponent >= 3 THEN 150 ELSE 40
        fart_phase == f32_of(((phase * 6284) \div 1000) * fart_freq, -frequency_exponent - 3)
        fundamental == Scaled(sin(fart_phase), 800)
        harmonic2 == Scaled(sin(fart_phase), 400)
        harmonic3 == Scaled(sin(fart_phase), 250)
        harmonic4 == Scaled(sin(fart_phase), 150)
        sub_bass == Scaled(sin(fart_phase), 300)
        sweep_amount == Scaled(sin(time), 50)
        swept_fundamental ==
            IF sweep_amount.nan THEN NaN ELSE Scaled(sin(fart_phase), 200)
        formant1 == Scaled(sin(fart_phase), 300)
        formant2 == Scaled(sin(fart_phase), 200)
        breath_mod == Plus(Scaled(sin(time), 20), Within(980))
        gentle_turbulence ==
            IF time = "inf" THEN NaN ELSE Scaled(sin("finite"), 50)
        tonal_mix == Plus(Plus(Plus(Plus(Plus(fundamental, harmonic2), harmonic3),
                                    harmonic4),
                               sub_bass),
                          swept_fundamental)
        formant_mix == Plus(Plus(tonal_mix, formant1), formant2)
        modulated == Times(formant_mix, breath_mod)
        final_output == Scaled(Plus(modulated, gentle_turbulence), 400)
    IN tanh(final_output)

\* generate_bass
generate_bass(phase, frequency_exponent, rate_exponent) ==
    LET time == time_of(phase, frequency_exponent, rate_exponent)
        fundamental == sin("finite")
        sub_bass == Scaled(sin("finite"), 800)
        harmonic2 == Scaled(sin("finite"), 400)
        harmonic3 == Scaled(sin("finite"), 250)
        harmonic4 == Scaled(sin("finite"), 150)
        sub_harmonic == Scaled(sin("finite"), 600)
        lfo == sin(time)
        lfo_mod == Plus(Scaled(lfo, 50), Within(1000))
        pitch_lfo == Scaled(sin(time), 2)
        modulated_fundamental ==
            IF pitch_lfo.nan THEN NaN ELSE Scaled(sin("finite"), 300)
        bass_mix == Plus(Plus(Plus(Plus(Plus(Plus(fundamental, sub_bass), sub_harmonic),
                                        Scaled(harmonic2, 800)),
                                   Scaled(harmonic3, 600)),
                              Scaled(harmonic4, 400)),
                         modulated_fundamental)
        modulated == Times(bass_mix, lfo_mod)
        saturated == Scaled(tanh(modulated), 900)
    IN Scaled(saturated, 700)

\* Waveform::generate_sample
waveform_generate_sample(waveform, phase, frequency_exponent, rate_exponent) ==
    CASE waveform = "Electronic" -> generate_sine
      [] waveform = "Natural" -> generate_natural_piano
      [] waveform = "Saw" -> generate_sawtooth(phase)
      [] waveform = "Square" -> generate_square(phase)
      [] waveform = "Cyberpunk" ->
             generate_cyberpunk(phase, frequency_exponent, rate_exponent)
      [] waveform = "Triangle" -> generate_triangle(phase)
      [] waveform = "Fart" -> generate_fart(phase, frequency_exponent, rate_exponent)
      [] waveform = "Bass" -> generate_bass(phase, frequency_exponent, rate_exponent)

\* ------------------------------------------------------------------ SequenceDetector

MAX_HISTORY_LENGTH == 50

\* "oppokokoppokosuttenten".chars().collect()
target_sequence ==
    <<"o", "p", "p", "o", "k", "o", "k", "o", "p", "p", "o", "k", "o",
      "s", "u", "t", "t", "e", "n", "t", "e", "n">>

\* SequenceDetector::new
SequenceDetector_new ==
    [input_history |-> << >>, recently_triggered |-> FALSE, reset_counter |-> 0]

\* SequenceDetector::keycode_to_char: the lowercase letter of a letter key,
\* None for every other key.
keycode_to_char(keycode) ==
    CASE keycode = "A" -> Some("a")  [] keycode = "B" -> Some("b")  [] keycode = "C" -> Some("c")
      [] keycode = "D" -> Some("d")  [] keycode = "E" -> Some("e")  [] keycode = "F" -> Some("f")
      [] keycode = "G" -> Some("g")  [] keycode = "H" -> Some("h")  [] keycode = "I" -> Some("i")
      [] keycode = "J" -> Some("j")  [] keycode = "K" -> Some("k")  [] keycode = "L" -> Some("l")
      [] keycode = "M" -> Some("m")  [] keycode = "N" -> Some("n")  [] keycode = "O" -> Some("o")
      [] keycode = "P" -> Some("p")  [] keycode = "Q" -> Some("q")  [] keycode = "R" -> Some("r")
      [] keycode = "S" -> Some("s")  [] keycode = "T" -> Some("t")  [] keycode = "U" -> Some("u")
      [] keycode = "V" -> Some("v")  [] keycode = "W" -> Some("w")  [] keycode = "X" -> Some("x")
      [] keycode = "Y" -> Some("y")  [] keycode = "Z" -> Some("z")
      [] OTHER -> None

\* Mutant of check_sequence_match: the target is looked for anywhere in the
\* history.
check_sequence_match_anywhere(input_history) ==
    \E first \in 1..(Len(input_history) - Len(target_sequence) + 1) :
        \A i \in 0..(Len(target_sequence) - 1) :
            input_history[first + i] = target_sequence[i + 1]

\* SequenceDetector::check_sequence_match: the last target_len characters of
\* the history are the target.
check_sequence_match(input_history) ==
    LET history_len == Len(input_history)
        target_len == Len(target_sequence)
    IN IF history_len < target_len THEN FALSE
       ELSE \A i \in 0..(target_len - 1) :
                input_history[history_len - target_len + i + 1] = target_sequence[i + 1]

\* Mutant of process_input: recently_triggered is never cleared.
process_input_never_cleared(detector, keycode) ==
    IF keycode_to_char(keycode) = None
    THEN [detector |-> detector, ret |-> FALSE]
    ELSE LET pushed == Append(detector.input_history, keycode_to_char(keycode)[1])
             history == IF Len(pushed) > MAX_HISTORY_LENGTH THEN Tail(pushed) ELSE pushed
         IN IF ~detector.recently_triggered /\ check_sequence_match(history)
            THEN [detector |-> [input_history |-> history, recently_triggered |-> TRUE,
                                reset_counter |-> 0],
                  ret |-> TRUE]
            ELSE [detector |-> [input_history |-> history,
                                recently_triggered |-> detector.recently_triggered,
                                reset_counter |-> 0],
                  ret |-> FALSE]

\* Mutant of process_input: a detection does not set recently_triggered.
process_input_unguarded(detector, keycode) ==
    IF keycode_to_char(keycode) = None
    THEN [detector |-> detector, ret |-> FALSE]
    ELSE LET pushed == Append(detector.input_history, keycode_to_char(keycode)[1])
             history == IF Len(pushed) > MAX_HISTORY_LENGTH THEN Tail(pushed) ELSE pushed
         IN [detector |-> [input_history |-> history, recently_triggered |-> FALSE,
                           reset_counter |-> 0],
             ret |-> check_sequence_match(history)]

\* SequenceDetector::process_input: the detector it leaves and what it returns.
process_input(detector, keycode) ==
    IF keycode_to_char(keycode) = None
    THEN [detector |-> detector, ret |-> FALSE]
    ELSE LET pushed == Append(detector.input_history, keycode_to_char(keycode)[1])
             history == IF Len(pushed) > MAX_HISTORY_LENGTH THEN Tail(pushed) ELSE pushed
             counted == detector.reset_counter + 1
             cleared == counted > Len(target_sequence)
             recently_triggered == IF cleared THEN FALSE ELSE detector.recently_triggered
             reset_counter == IF cleared THEN 0 ELSE counted
         IN IF ~recently_triggered /\ check_sequence_match(history)
            THEN [detector |-> [input_history |-> history, recently_triggered |-> TRUE,
                                reset_counter |-> 0],
                  ret |-> TRUE]
            ELSE [detector |-> [input_history |-> history,
                                recently_triggered |-> recently_triggered,
                                reset_counter |-> reset_counter],
                  ret |-> FALSE]

\* ------------------------------------------------------------------ the pool

\* AudioState::new: the state after construction.
AudioState_new(rate, waveform, volume, sample) ==
    /\ active_notes_by_id = << >>
    /\ sample_rate = rate
    /\ current_waveform = waveform
    /\ default_adsr = DefaultADSR(waveform)
    /\ master_volume = volume
    /\ press_history = [id \in Ids |-> << >>]
    /\ fart_sample = sample
    /\ active_sample_playbacks = << >>
    /\ global_time = 0
    /\ last_call = NoCall

\* Mutant of start_note_with_id: without the asset a Fart trigger is dropped
\* instead of falling back to synthesis.
start_note_with_id_silent(key_id, frequency, volume) ==
    LET limited == record_press(press_history[key_id], now)
        adjusted_volume == volume * master_volume * limited.multiplier
    IN /\ Len(limited.history) <= MaxHistory
       /\ press_history' = [press_history EXCEPT ![key_id] = limited.history]
       /\ last_call' = [NoCall EXCEPT !.op = "note_on", !.id = key_id,
                                      !.ret = adjusted_volume]
       /\ IF current_waveform = "Fart"
          THEN /\ Len(active_sample_playbacks) < MaxPlaybacks
               /\ active_sample_playbacks' =
                      IF fart_sample # None
                      THEN Append(active_sample_playbacks,
                                  SamplePlayback_new(fart_sample[1], global_time,
                                                     adjusted_volume))
                      ELSE active_sample_playbacks
               /\ UNCHANGED active_notes_by_id
          ELSE /\ active_notes_by_id' =
                      Insert(active_notes_by_id, key_id,
                             NoteState_new(frequency, adjusted_volume, default_adsr,
                                           current_waveform, now))
               /\ UNCHANGED active_sample_playbacks
       /\ UNCHANGED <<sample_rate, current_waveform, default_adsr, master_volume,
                      fart_sample, global_time>>

\* AudioState::start_note_with_id
start_note_with_id(key_id, frequency, volume) ==
    LET limited == record_press(press_history[key_id], now)
        adjusted_volume == volume * master_volume * limited.multiplier
    IN /\ Len(limited.history) <= MaxHistory
       /\ press_history' = [press_history EXCEPT ![key_id] = limited.history]
       /\ last_call' = [NoCall EXCEPT !.op = "note_on", !.id = key_id,
                                      !.ret = adjusted_volume]
       /\ IF current_waveform = "Fart" /\ fart_sample # None
          THEN /\ Len(active_sample_playbacks) < MaxPlaybacks
               /\ active_sample_playbacks' =
                      Append(active_sample_playbacks,
                             SamplePlayback_new(fart_sample[1], global_time, adjusted_volume))
               /\ UNCHANGED active_notes_by_id
          ELSE /\ active_notes_by_id' =
                      Insert(active_notes_by_id, key_id,
                             NoteState_new(frequency, adjusted_volume, default_adsr,
                                           current_waveform, now))
               /\ UNCHANGED active_sample_playbacks
       /\ UNCHANGED <<sample_rate, current_waveform, default_adsr, master_volume,
                      fart_sample, global_time>>

\* AudioState::stop_note_with_id
stop_note_with_id(id) ==
    /\ active_notes_by_id' =
           IF current_waveform = "Fart" THEN active_notes_by_id
           ELSE IF id \in DOMAIN active_notes_by_id
           THEN [active_notes_by_id EXCEPT ![id] = release(@)]
           ELSE active_notes_by_id
    /\ last_call' = [NoCall EXCEPT !.op = "note_off", !.id = id]
    /\ UNCHANGED <<sample_rate, current_waveform, default_adsr, master_volume,
                   press_history, fart_sample, active_sample_playbacks, global_time>>

\* The keys generate_sample pushes to to_remove_by_id: notes whose envelope
\* advance reports finished.
FinishedIds(notes, dt) ==
    {id \in DOMAIN notes :
        is_finished(update_envelope(notes[id], dt).note,
                    update_envelope(notes[id], dt).multiplier)}

\* One note's pass through the loop body of generate_sample.
ProcessNote(note, finished, rate, instant) ==
    IF finished THEN update_envelope(note, Dt(rate)).note
    ELSE note_generate_sample(update_envelope(note, Dt(rate)).note, rate, instant)

\* samples_to_remove: the indices (from 0) of the finished playbacks, in the
\* order the loop over active_sample_playbacks meets them.
FinishedIndices(playbacks, time, rate) ==
    SelectSeq([i \in 1..Len(playbacks) |-> i - 1],
              LAMBDA index : playback_is_finished(playbacks[index + 1], time, rate))

\* Vec::remove(index): the later elements shift down by one.
RemoveAt(seq, index) ==
    [i \in 1..(Len(seq) - 1) |-> IF i <= index THEN seq[i] ELSE seq[i + 1]]

\* for &i in samples_to_remove.iter().rev() { playbacks.remove(i) }
RECURSIVE RemoveReversed(_, _)
RemoveReversed(seq, indices) ==
    IF indices = << >> THEN seq
    ELSE RemoveReversed(RemoveAt(seq, indices[Len(indices)]),
                        SubSeq(indices, 1, Len(indices) - 1))

\* Mutant of KeepPlaybacks: only the first finished playback is removed.
KeepPlaybacksOneRemoved(playbacks, time, rate) ==
    LET indices == FinishedIndices(playbacks, time, rate)
    IN IF indices = << >> THEN playbacks ELSE RemoveAt(playbacks, indices[1])

\* The playbacks generate_sample keeps: the finished indices are removed in
\* reverse order.
KeepPlaybacks(playbacks, time, rate) ==
    RemoveReversed(playbacks, FinishedIndices(playbacks, time, rate))

\* A playback of the pool, its volume (kept in 1e-9 like base_volume) in the
\* thousandths get_current_sample multiplies by.
PoolPlayback(playback) == [playback EXCEPT !.volume = @ \div (1000 * 1000)]

\* The values get_current_sample returns for the playbacks the loop does not
\* skip, in list order.
PlayedSamples(playbacks, time, rate, overflow_checks) ==
    LET kept == SelectSeq(playbacks, LAMBDA p : ~playback_is_finished(p, time, rate))
    IN [i \in 1..Len(kept) |->
           get_current_sample(PoolPlayback(kept[i]), time, rate, overflow_checks)]

\* AudioState::generate_sample
generate_sample ==
    LET dt == Dt(sample_rate)
        time == Acc(global_time, dt)
        to_remove_by_id == FinishedIds(active_notes_by_id, dt)
        processed == [id \in DOMAIN active_notes_by_id |->
                         ProcessNote(active_notes_by_id[id], id \in to_remove_by_id,
                                     sample_rate, now)]
    IN /\ global_time' = time
       /\ active_notes_by_id' = RemoveAll(processed, to_remove_by_id)
       /\ active_sample_playbacks' =
              KeepPlaybacks(active_sample_playbacks, time, sample_rate)
       /\ \E overflow_checks \in BOOLEAN :
              last_call' = [NoCall EXCEPT
                               !.op = "generate_sample",
                               !.mixed = DOMAIN active_notes_by_id \ to_remove_by_id,
                               !.samples_to_remove =
                                   FinishedIndices(active_sample_playbacks, time, sample_rate),
                               !.played =
                                   PlayedSamples(active_sample_playbacks, time, sample_rate,
                                                 overflow_checks)]
       /\ UNCHANGED <<sample_rate, current_waveform, default_adsr, master_volume,
                      press_history, fart_sample>>

\* Mutant of set_waveform: the voices already sounding are switched to the new
\* waveform as well.
set_waveform_retunes(waveform) ==
    /\ current_waveform' = waveform
    /\ active_notes_by_id' =
           [id \in DOMAIN active_notes_by_id |->
               [active_notes_by_id[id] EXCEPT !.waveform = waveform]]
    /\ last_call' = NoCall
    /\ UNCHANGED <<sample_rate, default_adsr, master_volume,
                   press_history, fart_sample, active_sample_playbacks, global_time>>

\* AudioState::set_waveform
set_waveform(waveform) ==
    /\ current_waveform' = waveform
    /\ last_call' = NoCall
    /\ UNCHANGED <<active_notes_by_id, sample_rate, default_adsr, master_volume,
                   press_history, fart_sample, active_sample_playbacks, global_time>>

\* AudioState::set_volume
set_volume(volume) ==
    /\ master_volume' = Clamp(volume)
    /\ last_call' = NoCall
    /\ UNCHANGED <<active_notes_by_id, sample_rate, current_waveform, default_adsr,
                   press_history, fart_sample, active_sample_playbacks, global_time>>

\* ------------------------------------------------------------------ the pool alone

\* The wall clock moves between two calls.
AdvanceClock ==
    /\ \E d \in ClockSteps :
          /\ now + d <= MaxNowSteps * d
          /\ now' = now + d
    /\ UNCHANGED <<poolVars, threadVars, ticked, unitVars>>

ThreadsIdle ==
    /\ mutex = "free"
    /\ input_pc = "idle"
    /\ audio_pc = "idle"
    /\ buffer_left = 0

\* SequenceDetector::new, and nobody typing.
DetectorIdle ==
    /\ sequence_detector = SequenceDetector_new
    /\ keys_to_type = << >>
    /\ key_log = << >>

\* No limiter has been triggered and no playback is exercised on its own.
UnitsIdle ==
    /\ key_rate_limiter = KeyRateLimiter_new
    /\ trigger_log = [id \in Ids |-> << >>]
    /\ sample_playback = None
    /\ sampled = NotSampled
    /\ active_notes = << >>
    /\ DetectorIdle
    /\ wave_sample = NotGenerated

\* The program after AudioState::new, before any thread has run.
InitWith(rates, waveforms, volumes) ==
    /\ \E rate \in rates, waveform \in waveforms, volume \in volumes,
          sample \in {None, Some(FartAsset)} :
          AudioState_new(rate, waveform, volume, sample)
    /\ now = 0
    /\ ThreadsIdle
    /\ ticked = << >>
    /\ UnitsIdle

InitOf(rates, waveforms) == InitWith(rates, waveforms, InitVolumes)

Init == InitOf(SampleRates, Waveforms)

\* The input layer triggers a note on one of the identifiers `ids`.
NoteOnOf(ids) ==
    /\ \E id \in ids, frequency \in Frequencies, volume \in Volumes :
          start_note_with_id(id, frequency, volume)
    /\ UNCHANGED <<ticked, unitVars, now, threadVars>>

NoteOffOf(ids) ==
    /\ \E id \in ids : stop_note_with_id(id)
    /\ UNCHANGED <<ticked, unitVars, now, threadVars>>

NoteOn == NoteOnOf(KeyIds)

NoteOff == NoteOffOf(KeyIds)

GenerateSample ==
    /\ generate_sample
    /\ UNCHANGED <<ticked, unitVars, now, threadVars>>

SetWaveform ==
    /\ \E waveform \in Waveforms : set_waveform(waveform)
    /\ UNCHANGED <<ticked, unitVars, now, threadVars>>

SetVolume ==
    /\ \E volume \in SetVolumes : set_volume(volume)
    /\ UNCHANGED <<ticked, unitVars, now, threadVars>>

\* Every operation of the pool on one identifier, with the wall clock moving.
Next ==
    \/ NoteOn
    \/ NoteOff
    \/ GenerateSample
    \/ SetWaveform
    \/ SetVolume
    \/ AdvanceClock

Spec == Init /\ [][Next]_vars

\* The audio callback keeps being invoked by the platform's audio subsystem.
FairSpec == Spec /\ WF_vars(GenerateSample)

\* Note events and sample generation only, on all identifiers, for every
\* configuration the pool can be constructed with.
NoteOnAny == NoteOnOf(Ids)

NoteOffAny == NoteOffOf(Ids)

NoteNext ==
    \/ NoteOnAny
    \/ NoteOffAny
    \/ GenerateSample

NoteInit == InitOf(NoteSampleRates, AllWaveforms)

NoteSpec == NoteInit /\ [][NoteNext]_vars

\* The pool built and triggered with arguments over the whole range its public
\* functions accept.
RangeNoteOn ==
    /\ \E id \in KeyIds, frequency \in RangeFrequencies, volume \in Volumes :
          start_note_with_id(id, frequency, volume)
    /\ UNCHANGED <<ticked, unitVars, now, threadVars>>

RangeNext ==
    \/ RangeNoteOn
    \/ NoteOff
    \/ GenerateSample
    \/ SetVolume

RangeInit == InitWith(SampleRates, {"Electronic"}, ConstructorVolumes)

RangeSpec == RangeInit /\ [][RangeNext]_vars

\* ------------------------------------------------------------------ the limiters alone

\* Mutant of record_press_and_get_volume_multiplier: one history is kept for
\* all keys.
record_press_shared_history(key_id, longest) ==
    LET limited == record_press(press_history[key_id], now)
    IN /\ Len(limited.history) <= longest
       /\ press_history' = [other \in Ids |-> limited.history]
       /\ last_call' = [NoCall EXCEPT !.op = "record_press", !.id = key_id,
                                      !.ret = limited.multiplier]
       /\ UNCHANGED <<active_notes_by_id, sample_rate, current_waveform, default_adsr,
                      master_volume, fart_sample, active_sample_playbacks, global_time,
                      now, threadVars, ticked, key_rate_limiter, sample_playback, sampled,
                      active_notes, detectorVars, wave_sample>>

\* rate_limiter.record_press_and_get_volume_multiplier(key_id) on the pool's
\* RateLimiter, as tests::test_rate_limiter calls it.
record_press_and_get_volume_multiplier(key_id, longest) ==
    LET limited == record_press(press_history[key_id], now)
    IN /\ Len(limited.history) <= longest
       /\ press_history' = [press_history EXCEPT ![key_id] = limited.history]
       /\ last_call' = [NoCall EXCEPT !.op = "record_press", !.id = key_id,
                                      !.ret = limited.multiplier]
       /\ UNCHANGED <<active_notes_by_id, sample_rate, current_waveform, default_adsr,
                      master_volume, fart_sample, active_sample_playbacks, global_time,
                      now, threadVars, ticked, key_rate_limiter, sample_playback, sampled,
                      active_notes, detectorVars, wave_sample>>

\* limiter.check_key_press(keycode) on a KeyRateLimiter.
KeyPress ==
    /\ \E keycode \in KeyIds :
          LET checked == check_key_press(key_rate_limiter, keycode, now)
          IN /\ checked.limiter.press_counts[keycode] <= MaxRun
             /\ key_rate_limiter' = checked.limiter
             /\ last_call' = [NoCall EXCEPT !.op = "check_key_press", !.id = keycode,
                                            !.ret = checked.multiplier]
    /\ UNCHANGED <<active_notes_by_id, sample_rate, current_waveform, default_adsr,
                   master_volume, press_history, fart_sample, active_sample_playbacks,
                   global_time, now, threadVars, ticked, trigger_log, sample_playback,
                   sampled, active_notes, detectorVars, wave_sample>>

\* Time passes between two triggers.
Elapse(steps, limit) ==
    /\ \E d \in steps :
          /\ now + d <= limit
          /\ now' = now + d
    /\ UNCHANGED <<poolVars, threadVars, ticked, unitVars>>

\* Triggers on two identifiers, spaced around the window; every trigger is
\* written to the log.
RecordPress ==
    \E key_id \in Ids :
        /\ record_press_and_get_volume_multiplier(key_id, MaxHistory)
        /\ trigger_log' = [trigger_log EXCEPT ![key_id] = Append(@, now)]

LimiterElapse == Elapse(LimiterSteps, MaxLimiterTime)

LimiterNext ==
    \/ RecordPress
    \/ LimiterElapse

LimiterInit ==
    /\ InitWith(SampleRates, {"Electronic"}, InitVolumes)
    /\ fart_sample = None

LimiterSpec == LimiterInit /\ [][LimiterNext]_vars

\* Runs of rapid presses of one key, given to either limiter.
RunRecordPress ==
    \E key_id \in KeyIds :
        /\ record_press_and_get_volume_multiplier(key_id, MaxRun)
        /\ UNCHANGED trigger_log

RunElapse == Elapse(RunSteps, MaxRunTime)

\* 0.01 on the scale of a volume multiplier (thousandths).
NegligibleMultiplier == 10

\* Mutant of start_note: the voice is inserted whatever the multiplier.
start_note_unconditional(keycode, frequency, volume) ==
    LET checked == check_key_press(key_rate_limiter, keycode, now)
        adjusted_volume == volume * checked.multiplier * master_volume
    IN /\ checked.limiter.press_counts[keycode] <= MaxRun
       /\ key_rate_limiter' = checked.limiter
       /\ active_notes' =
              Insert(active_notes, keycode,
                     NoteState_new(frequency, adjusted_volume, default_adsr,
                                   current_waveform, now))
       /\ last_call' = [NoCall EXCEPT !.op = "start_note", !.id = keycode,
                                      !.ret = adjusted_volume]

\* AudioState::start_note of src/audio/engine.rs: the pool keyed by Keycode
\* whose limiter is a KeyRateLimiter.
start_note(keycode, frequency, volume) ==
    LET checked == check_key_press(key_rate_limiter, keycode, now)
        adjusted_volume == volume * checked.multiplier * master_volume
    IN /\ checked.limiter.press_counts[keycode] <= MaxRun
       /\ key_rate_limiter' = checked.limiter
       /\ IF checked.multiplier <= NegligibleMultiplier
          THEN /\ last_call' = [NoCall EXCEPT !.op = "start_note", !.id = keycode]
               /\ UNCHANGED active_notes
          ELSE /\ active_notes' =
                      Insert(active_notes, keycode,
                             NoteState_new(frequency, adjusted_volume, default_adsr,
                                           current_waveform, now))
               /\ last_call' = [NoCall EXCEPT !.op = "start_note", !.id = keycode,
                                              !.ret = adjusted_volume]

\* state.start_note(keycode, frequency, volume)
StartNote ==
    /\ \E keycode \in KeyIds, frequency \in Frequencies, volume \in Volumes :
          start_note(keycode, frequency, volume)
    /\ UNCHANGED <<active_notes_by_id, sample_rate, current_waveform, default_adsr,
                   master_volume, press_history, fart_sample, active_sample_playbacks,
                   global_time, now, threadVars, ticked, trigger_log, sample_playback,
                   sampled, detectorVars, wave_sample>>

\* Runs of rapid presses of one key given to the KeyRateLimiter, directly and
\* through start_note.
StartElapse == Elapse(StartSteps, MaxStartTime)

StartNext ==
    \/ StartNote
    \/ KeyPress
    \/ StartElapse

StartSpec == LimiterInit /\ [][StartNext]_vars

RunNext ==
    \/ RunRecordPress
    \/ KeyPress
    \/ RunElapse

RunSpec == LimiterInit /\ [][RunNext]_vars

\* ------------------------------------------------------------------ the typist

\* The letter key of a character.
KeyOf(ch) ==
    CHOOSE keycode \in {"E", "K", "N", "O", "P", "S", "T", "U", "X"} :
        keycode_to_char(keycode) = Some(ch)

\* The keys of the target sequence, of its prefixes and of noise.
TargetKeys == [i \in 1..Len(target_sequence) |-> KeyOf(target_sequence[i])]
Prefix(n) == SubSeq(TargetKeys, 1, n)
Noise(n) == [i \in 1..n |-> "X"]

Stretches ==
    {<< >>, TargetKeys} \cup {Noise(n) : n \in NoiseLengths}
                       \cup {Prefix(n) : n \in PrefixLengths}

\* Three stretches typed one after the other.
Scripts == {first \o second \o third : first, second, third \in Stretches}

\* sequence_detector.process_input(key) for a newly pressed key; the letters
\* given to it are written to key_log with what it returned.
Type(key) ==
    LET processed == process_input(sequence_detector, key)
    IN /\ sequence_detector' = processed.detector
       /\ key_log' = IF keycode_to_char(key) = None THEN key_log
                     ELSE Append(key_log, [ch |-> keycode_to_char(key)[1],
                                           ret |-> processed.ret])
       /\ last_call' = [NoCall EXCEPT !.op = "process_input", !.id = key,
                                      !.ret = IF processed.ret THEN 1 ELSE 0]
       /\ UNCHANGED <<active_notes_by_id, sample_rate, current_waveform, default_adsr,
                      master_volume, press_history, fart_sample, active_sample_playbacks,
                      global_time, now, threadVars, ticked, key_rate_limiter,
                      trigger_log, sample_playback, sampled, active_notes,
                      wave_sample>>

\* The typist presses the next letter.
TypeLetter ==
    /\ keys_to_type # << >>
    /\ Type(Head(keys_to_type))
    /\ keys_to_type' = Tail(keys_to_type)

\* A key that is not a letter is pressed in between.
TypeOther ==
    /\ \E key \in OtherKeys : Type(key)
    /\ UNCHANGED keys_to_type

DetectorNext ==
    \/ TypeLetter
    \/ TypeOther

DetectorInit ==
    /\ \E rate \in SampleRates : AudioState_new(rate, "Electronic", 1000, None)
    /\ now = 0
    /\ ThreadsIdle
    /\ ticked = << >>
    /\ key_rate_limiter = KeyRateLimiter_new
    /\ trigger_log = [id \in Ids |-> << >>]
    /\ sample_playback = None
    /\ sampled = NotSampled
    /\ active_notes = << >>
    /\ sequence_detector = SequenceDetector_new
    /\ keys_to_type \in Scripts
    /\ key_log = << >>
    /\ wave_sample = NotGenerated

\* A detector is given letters (noise, parts of the sequence, the sequence,
\* up to three stretches in a row) with other keys in between.
DetectorSpec == DetectorInit /\ [][DetectorNext]_vars

\* ------------------------------------------------------------------ one waveform

\* waveform.generate_sample(phase, frequency, sample_rate)
GenerateWave ==
    /\ \E waveform \in WaveformKinds, phase \in WavePhases,
          frequency_exponent \in FrequencyExponents, rate_exponent \in RateExponents :
          wave_sample' =
              [op |-> "generate_sample", waveform |-> waveform, phase |-> phase,
               frequency_exponent |-> frequency_exponent,
               rate_exponent |-> rate_exponent,
               outcome |-> waveform_generate_sample(waveform, phase, frequency_exponent,
                                                    rate_exponent)]
    /\ UNCHANGED <<poolVars, now, threadVars, ticked, key_rate_limiter, trigger_log,
                   sample_playback, sampled, active_notes, detectorVars>>

WaveNext == GenerateWave

\* Every waveform kind is asked for samples over the claimed range of its
\* arguments.
WaveSpec == LimiterInit /\ [][WaveNext]_vars

\* ------------------------------------------------------------------ one playback

\* A playback is built over any of the buffers and exercised through the
\* functions of SamplePlayback and of its AudioSample; sample_rate is the
\* target rate handed to them.
SampleInitOf(assets) ==
    /\ \E rate \in SampleTargetRates :
          AudioState_new(rate, "Fart", 1000, None)
    /\ now = 0
    /\ ThreadsIdle
    /\ ticked = << >>
    /\ key_rate_limiter = KeyRateLimiter_new
    /\ trigger_log = [id \in Ids |-> << >>]
    /\ \E sample \in assets, start_time \in StartTimes, volume \in PlaybackVolumes :
          sample_playback = Some(SamplePlayback_new(sample, start_time, volume))
    /\ sampled = NotSampled
    /\ active_notes = << >>
    /\ DetectorIdle
    /\ wave_sample = NotGenerated

SampleInit == SampleInitOf(SampleAssets)

\* sample.get_sample_at_time(time_seconds, target_sample_rate)
GetSampleAtTime ==
    /\ \E time \in SampleTimes, overflow_checks \in BOOLEAN :
          sampled' = [op |-> "get_sample_at_time", time |-> time,
                      outcome |-> get_sample_at_time(sample_playback[1].sample, time,
                                                     sample_rate, overflow_checks),
                      finished |-> FALSE]
    /\ UNCHANGED <<poolVars, now, threadVars, ticked, active_notes, detectorVars, wave_sample,
                   key_rate_limiter, trigger_log,
                   sample_playback>>

\* playback.get_current_sample(current_time, target_sample_rate)
GetCurrentSample ==
    /\ \E current_time \in SampleTimes, overflow_checks \in BOOLEAN :
          sampled' = [op |-> "get_current_sample", time |-> current_time,
                      outcome |-> get_current_sample(sample_playback[1], current_time,
                                                     sample_rate, overflow_checks),
                      finished |-> FALSE]
    /\ UNCHANGED <<poolVars, now, threadVars, ticked, active_notes, detectorVars, wave_sample,
                   key_rate_limiter, trigger_log,
                   sample_playback>>

\* playback.is_finished(current_time, target_sample_rate)
IsFinished ==
    /\ \E current_time \in SampleTimes :
          sampled' = [op |-> "is_finished", time |-> current_time,
                      outcome |-> Returned(0, {}),
                      finished |-> playback_is_finished(sample_playback[1], current_time,
                                                        sample_rate)]
    /\ UNCHANGED <<poolVars, now, threadVars, ticked, active_notes, detectorVars, wave_sample,
                   key_rate_limiter, trigger_log,
                   sample_playback>>

\* playback.stop()
Stop ==
    /\ sample_playback' = Some(stop(sample_playback[1]))
    /\ sampled' = [NotSampled EXCEPT !.op = "stop"]
    /\ UNCHANGED <<poolVars, now, threadVars, ticked, active_notes, detectorVars, wave_sample,
                   key_rate_limiter, trigger_log>>

SampleNext ==
    \/ GetSampleAtTime
    \/ GetCurrentSample
    \/ IsFinished
    \/ Stop

SampleSpec == SampleInit /\ [][SampleNext]_vars

\* Buffers of whole frames of one, two and three channels are sampled on and
\* between their frames.
ChannelNext ==
    \/ GetSampleAtTime
    \/ GetCurrentSample

ChannelInit == SampleInitOf(ChannelAssets)

ChannelSpec == ChannelInit /\ [][ChannelNext]_vars

\* ------------------------------------------------------------------ one voice

\* The ADSR parameters tried on a voice.
VoiceAdsrs ==
    {ADSR(a, d, s, r) : a \in AttackTimes, d \in DecayTimes,
                        s \in SustainLevels, r \in ReleaseTimes}

\* What generate_sample does to each voice it finds: the voice before the
\* tick, the multiplier update_envelope returns for it, the multiplier of the
\* voice's previous tick (0 before its first), and the factors its sample is
\* scaled by.
Observe ==
    [id \in DOMAIN active_notes_by_id |->
        LET advanced == update_envelope(active_notes_by_id[id], Dt(sample_rate))
        IN [before |-> active_notes_by_id[id],
            multiplier |-> advanced.multiplier,
            previous |-> IF id \in DOMAIN ticked THEN ticked[id].multiplier ELSE 0,
            factors |-> final_sample_factors(advanced.note, advanced.multiplier,
                                             sample_rate, now)]]

\* A caller stores NoteState::new(frequency, volume, adsr, waveform) under a
\* free identifier of the public map active_notes_by_id.
VoiceInsert ==
    /\ \E id \in KeyIds, frequency \in Frequencies, adsr \in VoiceAdsrs :
          /\ id \notin DOMAIN active_notes_by_id
          /\ active_notes_by_id' =
                 Insert(active_notes_by_id, id,
                        NoteState_new(frequency, 1000 * 1000 * 1000, adsr,
                                      current_waveform, now))
          /\ ticked' = [other \in DOMAIN ticked \ {id} |-> ticked[other]]
    /\ last_call' = NoCall
    /\ UNCHANGED <<sample_rate, current_waveform, default_adsr, master_volume,
                   press_history, fart_sample, active_sample_playbacks, global_time,
                   now, threadVars, unitVars>>

\* generate_sample, with what it did to each voice written down.
VoiceTick ==
    /\ generate_sample
    /\ ticked' = Observe
    /\ UNCHANGED <<now, threadVars, unitVars>>

VoiceNext ==
    \/ VoiceInsert
    \/ NoteOff
    \/ VoiceTick
    \/ AdvanceClock

VoiceInit == InitOf(VoiceSampleRates, {"Electronic"})

\* One voice of any ADSR parameters is ticked and released in a pool.
VoiceSpec == VoiceInit /\ [][VoiceNext]_vars

\* ------------------------------------------------------------------ a held voice

HoldElapse == Elapse(HoldSteps, MaxHoldTime)

\* A key is pressed, held for seconds while the callback ticks its voice,
\* released and pressed again.
HoldNext ==
    \/ NoteOn
    \/ NoteOff
    \/ GenerateSample
    \/ HoldElapse

HoldInit ==
    /\ InitWith(HoldSampleRates, {"Electronic"}, InitVolumes)
    /\ fart_sample = None

HoldSpec == HoldInit /\ [][HoldNext]_vars

\* ------------------------------------------------------------------ the two threads

\* AudioState::add_sample_playback
add_sample_playback(playback) ==
    /\ Len(active_sample_playbacks) < MaxPlaybacks
    /\ active_sample_playbacks' = Append(active_sample_playbacks, playback)
    /\ last_call' = NoCall
    /\ UNCHANGED <<active_notes_by_id, sample_rate, current_waveform, default_adsr,
                   master_volume, press_history, fart_sample, global_time>>

\* The handlers of the input thread that touch the pool: handle_key_press,
\* handle_key_release, trigger_easter_egg, update_config.
Handlers == {"press", "release", "egg", "config"}

\* Mutant of lock: the mutex is taken without waiting for it to be free.
lock_nowait(thread) ==
    mutex' = thread

\* audio_state.lock().unwrap() blocks until the mutex is free.
lock(thread) ==
    /\ mutex = "free"
    /\ mutex' = thread

\* The MutexGuard is dropped at the end of its scope.
unlock(thread) ==
    /\ mutex = thread
    /\ mutex' = "free"

\* CodeBeatsEngine::log: the callback's own mutex is taken and the callback
\* runs under it; log returns when the callback does.  A handler logs only
\* when config.verbose is set.
log(position, verbose) ==
    input_pc' = IF verbose THEN "log" ELSE position

\* trigger_easter_egg: `if self.config.verbose { self.log(..) }` comes before
\* the pool is locked.
InputEggTrigger ==
    /\ input_pc = "idle"
    /\ input_pc' = "trigger_log"
    /\ UNCHANGED <<poolVars, ticked, unitVars, now, mutex, audio_pc, buffer_left>>

\* trigger_easter_egg: the log call has returned, the pool is locked.
InputEggLock ==
    /\ input_pc = "trigger_log"
    /\ lock("input")
    /\ input_pc' = "egg"
    /\ UNCHANGED <<poolVars, ticked, unitVars, now, audio_pc, buffer_left>>

\* `let mut state = self.audio_state.lock().unwrap()` of a handler.
InputLock ==
    /\ input_pc = "idle"
    /\ lock("input")
    /\ \E handler \in Handlers : input_pc' = handler
    /\ UNCHANGED <<poolVars, ticked, unitVars, now, audio_pc, buffer_left>>

\* handle_key_press: state.start_note_with_id(&key_id, frequency, volume)
InputPress ==
    /\ input_pc = "press"
    /\ \E id \in KeyIds, frequency \in Frequencies, volume \in Volumes :
          start_note_with_id(id, frequency, volume)
    /\ \E verbose \in BOOLEAN : log("unlock", verbose)
    /\ UNCHANGED <<ticked, unitVars, now, mutex, audio_pc, buffer_left>>

\* handle_key_release: state.stop_note_with_id(&key_id)
InputRelease ==
    /\ input_pc = "release"
    /\ \E id \in KeyIds : stop_note_with_id(id)
    /\ \E verbose \in BOOLEAN : log("unlock", verbose)
    /\ UNCHANGED <<ticked, unitVars, now, mutex, audio_pc, buffer_left>>

\* trigger_easter_egg: a playback of the asset at volume 0.7, if there is one.
InputEgg ==
    /\ input_pc = "egg"
    /\ IF fart_sample # None
       THEN /\ add_sample_playback(
                   SamplePlayback_new(fart_sample[1], global_time, 700 * 1000 * 1000))
            /\ input_pc' = "unlock"
       ELSE /\ UNCHANGED poolVars
            /\ \E verbose \in BOOLEAN : log("unlock", verbose)
    /\ UNCHANGED <<ticked, unitVars, now, mutex, audio_pc, buffer_left>>

\* update_config: state.set_waveform(..); state.set_volume(..) under one guard.
InputConfigWaveform ==
    /\ input_pc = "config"
    /\ \E waveform \in Waveforms : set_waveform(waveform)
    /\ input_pc' = "config_volume"
    /\ UNCHANGED <<ticked, unitVars, now, mutex, audio_pc, buffer_left>>

InputConfigVolume ==
    /\ input_pc = "config_volume"
    /\ \E volume \in SetVolumes : set_volume(volume)
    /\ input_pc' = "unlock"
    /\ UNCHANGED <<ticked, unitVars, now, mutex, audio_pc, buffer_left>>

\* The callback called by a handler that holds the pool's guard returns; the
\* handler goes on to the end of the guard's scope.
InputLogReturn ==
    /\ input_pc = "log"
    /\ input_pc' = "unlock"
    /\ UNCHANGED <<poolVars, ticked, unitVars, now, mutex, audio_pc, buffer_left>>

InputUnlock ==
    /\ input_pc = "unlock"
    /\ unlock("input")
    /\ input_pc' = "idle"
    /\ UNCHANGED <<poolVars, ticked, unitVars, now, audio_pc, buffer_left>>

\* The output callback: `let mut state = audio_state_clone.lock().unwrap()`.
AudioLock ==
    /\ audio_pc = "idle"
    /\ lock("audio")
    /\ audio_pc' = "fill"
    /\ \E size \in BufferSizes : buffer_left' = size
    /\ UNCHANGED <<poolVars, ticked, unitVars, now, input_pc>>

\* `for sample in data.iter_mut() { *sample = state.generate_sample(); }`
AudioFill ==
    /\ audio_pc = "fill"
    /\ buffer_left > 0
    /\ generate_sample
    /\ buffer_left' = buffer_left - 1
    /\ UNCHANGED <<ticked, unitVars, now, mutex, input_pc, audio_pc>>

\* The callback returns: the guard is dropped.
AudioUnlock ==
    /\ audio_pc = "fill"
    /\ buffer_left = 0
    /\ unlock("audio")
    /\ audio_pc' = "idle"
    /\ UNCHANGED <<poolVars, ticked, unitVars, now, input_pc, buffer_left>>

\* The input thread and the audio callback, each taking the pool's mutex
\* around its operations (all within one reading of the wall clock).
ThreadNext ==
    \/ InputEggTrigger
    \/ InputEggLock
    \/ InputLock
    \/ InputPress
    \/ InputRelease
    \/ InputEgg
    \/ InputConfigWaveform
    \/ InputConfigVolume
    \/ InputLogReturn
    \/ InputUnlock
    \/ AudioLock
    \/ AudioFill
    \/ AudioUnlock

ThreadSpec == Init /\ [][ThreadNext]_vars

\* ------------------------------------------------------------------ properties

\* The step is a note_on for `id`.
IsNoteOn(id) ==
    \E frequency \in Frequencies, volume \in Volumes :
        start_note_with_id(id, frequency, volume)

\* C1: a note_on for an identifier that already has a voice, in whatever
\* envelope state, leaves the number of voices unchanged and leaves under the
\* identifier a voice in Attack with envelope_time 0 and phase 0; the mapping
\* never holds more voices than there are identifiers.
C1_NoteOnReplaces ==
    [][\A id \in Ids :
          (id \in DOMAIN active_notes_by_id /\ IsNoteOn(id)) =>
              /\ DOMAIN active_notes_by_id' = DOMAIN active_notes_by_id
              /\ Cardinality(DOMAIN active_notes_by_id') <= Cardinality(Ids)
              /\ active_notes_by_id'[id].envelope_state = "Attack"
              /\ active_notes_by_id'[id].envelope_time = 0
              /\ active_notes_by_id'[id].phase = 0]_vars

\* Identifier "a" was triggered twice before any sample was generated (so the
\* first voice was still there), while "b" holds a voice already in Release.
C1_Witness ==
    /\ last_call.op = "note_on"
    /\ last_call.id = "a"
    /\ global_time = 0
    /\ Len(press_history["a"]) = 2
    /\ DOMAIN active_notes_by_id = {"a", "b"}
    /\ active_notes_by_id["a"].envelope_state = "Attack"
    /\ active_notes_by_id["b"].envelope_state = "Release"

\* C2: generate_sample removes only voices that are in Release, and never moves
\* a voice that is not in Release into Release: a voice on which release() was
\* not called stays in the mapping, and a voice in Sustain stays in Sustain,
\* however many samples are generated.
C2_HeldNoteStays ==
    [][generate_sample =>
          \A id \in DOMAIN active_notes_by_id :
              active_notes_by_id[id].envelope_state # "Release" =>
                  /\ id \in DOMAIN active_notes_by_id'
                  /\ active_notes_by_id'[id].envelope_state # "Release"
                  /\ (active_notes_by_id[id].envelope_state = "Sustain"
                        => active_notes_by_id'[id].envelope_state = "Sustain")]_vars

\* A voice that has been in Sustain for as long as the time accumulator counts
\* and was mixed by the last generate_sample call.
C2_Witness ==
    /\ last_call.op = "generate_sample"
    /\ "a" \in DOMAIN active_notes_by_id
    /\ "a" \in last_call.mixed
    /\ active_notes_by_id["a"].envelope_state = "Sustain"
    /\ active_notes_by_id["a"].envelope_time >= AccCap

\* The step is a note_off for `id`.
IsNoteOff(id) == stop_note_with_id(id)

\* C3 (as claimed): a note_off on an existing voice leaves it in the mapping in
\* Release; generate_sample keeps a voice in Release while its accumulated
\* time is below release_time and removes it at the first call at which that
\* time has reached release_time.
C3_ReleasedThenReaped ==
    [][\A id \in Ids :
          id \in DOMAIN active_notes_by_id =>
              /\ IsNoteOff(id) =>
                    /\ id \in DOMAIN active_notes_by_id'
                    /\ active_notes_by_id'[id].envelope_state = "Release"
              /\ (generate_sample /\ active_notes_by_id[id].envelope_state = "Release") =>
                    IF Acc(active_notes_by_id[id].envelope_time, Dt(sample_rate))
                          < active_notes_by_id[id].adsr.release_time
                    THEN /\ id \in DOMAIN active_notes_by_id'
                         /\ active_notes_by_id'[id].envelope_state = "Release"
                    ELSE id \notin DOMAIN active_notes_by_id']_vars

\* C4 (as claimed): once note_off was called for an identifier that has a
\* voice, and samples keep being generated, the voice is eventually removed
\* unless a note_on intervenes.
C4_ReleasedVoiceEventuallyRemoved ==
    (last_call.op = "note_off" /\ last_call.id \in DOMAIN active_notes_by_id)
        ~> (\/ DOMAIN active_notes_by_id = {}
            \/ last_call.op = "note_on")

\* C5 (as claimed): a note_off for an identifier that has a voice leaves that
\* voice in Release, whatever the pool's current waveform is.
C5_NoteOffReleasesUnderAnyWaveform ==
    [][\A id \in KeyIds :
          (id \in DOMAIN active_notes_by_id /\ IsNoteOff(id)) =>
              active_notes_by_id'[id].envelope_state = "Release"]_vars

\* Position of an envelope state in the order Attack, Decay, Sustain, Release.
Rank(state) ==
    CASE state = "Attack" -> 0
      [] state = "Decay" -> 1
      [] state = "Sustain" -> 2
      [] state = "Release" -> 3

\* C6: over a generate_sample call a voice that stays in the mapping keeps its
\* envelope state or moves to the next one of Attack, Decay, Sustain, and a
\* voice in Sustain or Release keeps its state; over a note_off a voice keeps
\* its state or moves to Release. No step but a note_on moves a voice back.
C6_EnvelopeMovesForward ==
    [][\A id \in DOMAIN active_notes_by_id \cap DOMAIN active_notes_by_id' :
          LET before == active_notes_by_id[id].envelope_state
              after == active_notes_by_id'[id].envelope_state
          IN /\ generate_sample =>
                   /\ Rank(after) \in {Rank(before), Rank(before) + 1}
                   /\ before \in {"Sustain", "Release"} => after = before
             /\ (\E other \in Ids : IsNoteOff(other)) =>
                   after \in {before, "Release"}
             /\ ~IsNoteOn(id) => Rank(after) >= Rank(before)]_vars

\* A voice released while still in Decay ("b") next to one that walked
\* through Attack and Decay into Sustain ("a").
C6_Witness ==
    /\ last_call.op = "generate_sample"
    /\ DOMAIN active_notes_by_id = {"a", "b"}
    /\ active_notes_by_id["a"].envelope_state = "Sustain"
    /\ active_notes_by_id["b"].envelope_state = "Release"
    /\ active_notes_by_id["b"].envelope_time > 0

\* C7: a note_off for a voice that is already in Release leaves the voice
\* exactly as it was (envelope state, envelope time and all other fields).
C7_ReleaseIdempotent ==
    [][\A id \in Ids :
          (/\ id \in DOMAIN active_notes_by_id
           /\ active_notes_by_id[id].envelope_state = "Release"
           /\ IsNoteOff(id)) =>
              active_notes_by_id'[id] = active_notes_by_id[id]]_vars

\* The last call was a note_off for "a", whose release ramp was already under
\* way (its time has advanced since release() reset it).
C7_Witness ==
    /\ last_call.op = "note_off"
    /\ last_call.id = "a"
    /\ "a" \in DOMAIN active_notes_by_id
    /\ active_notes_by_id["a"].envelope_state = "Release"
    /\ active_notes_by_id["a"].envelope_time > 0

\* C8: when generate_sample returns, the mapping holds exactly the voices that
\* did not report finished, those are the voices that were mixed, and no voice
\* left in the mapping is at the end of its release ramp.
C8_FinishedReapedSameTick ==
    [][generate_sample =>
          LET finished == FinishedIds(active_notes_by_id, Dt(sample_rate))
          IN /\ DOMAIN active_notes_by_id' = DOMAIN active_notes_by_id \ finished
             /\ last_call'.mixed \cap finished = {}
             /\ last_call'.mixed = DOMAIN active_notes_by_id \ finished
             /\ \A id \in DOMAIN active_notes_by_id' :
                   ~(/\ active_notes_by_id'[id].envelope_state = "Release"
                     /\ ReleaseDone(active_notes_by_id'[id]))]_vars

\* The last generate_sample call mixed "b" alone, after "a" had been given a
\* voice (its press is recorded and the pool does not play samples) that has
\* since been reaped.
C8_Witness ==
    /\ last_call.op = "generate_sample"
    /\ last_call.mixed = {"b"}
    /\ DOMAIN active_notes_by_id = {"b"}
    /\ active_notes_by_id["b"].envelope_state = "Release"
    /\ press_history["a"] # << >>
    /\ current_waveform # "Fart"

\* 0.01 on the scale of base_volume (a product of three thousandths).
NegligibleVolume == 10000000

\* C9 (as claimed): a note_on whose actual volume (volume * master_volume *
\* discount) is at most 0.01 returns 0 and changes neither the voice mapping
\* nor the list of playbacks.
C9_NegligibleNoteOnIsNoOp ==
    [][\A id \in KeyIds, frequency \in Frequencies, volume \in Volumes :
          (/\ start_note_with_id(id, frequency, volume)
           /\ volume * master_volume * record_press(press_history[id], now).multiplier
                  <= NegligibleVolume) =>
              /\ last_call'.ret = 0
              /\ active_notes_by_id' = active_notes_by_id
              /\ active_sample_playbacks' = active_sample_playbacks]_vars

\* The input thread is between the lock() of a handler and the end of the
\* guard's scope (trigger_easter_egg's first message is logged before it).
InputInPool == input_pc \notin {"idle", "trigger_log"}

\* C10: a thread is inside a pool operation only while it holds the mutex, so
\* the input thread and the audio callback are never inside one together, and
\* every step that changes the pool is taken by the holder of the mutex.
C10_MutualExclusion ==
    /\ [](InputInPool => mutex = "input")
    /\ [](audio_pc # "idle" => mutex = "audio")
    /\ [](~InputInPool \/ audio_pc = "idle")
    /\ [][poolVars' # poolVars => (mutex # "free" /\ mutex' = mutex)]_vars

\* The callback is in the middle of a two-sample buffer, mixing a voice the
\* input thread started, while the input thread is outside its handlers.
C10_Witness ==
    /\ audio_pc = "fill"
    /\ buffer_left = 1
    /\ mutex = "audio"
    /\ input_pc = "idle"
    /\ last_call.op = "generate_sample"
    /\ last_call.mixed = {"a"}

\* C11 (as claimed): the callback gives the mutex up after each sample, so in
\* the state between two consecutive samples of one buffer the callback does
\* not hold it and a handler of the input thread can take it.
C11_LockReleasedBetweenSamples ==
    [][(AudioFill /\ buffer_left' > 0) => mutex' # "audio"]_vars

\* The identifiers note_on has been called with: the rate limiter keeps at
\* least the last press of each.
UsedIds == {id \in Ids : press_history[id] # << >>}

\* C12 (as claimed): the synthesized voices and the sample playbacks the pool
\* holds are together never more than the identifiers used so far.
C12_ObjectsBoundedByIdentifiers ==
    Cardinality(DOMAIN active_notes_by_id) + Len(active_sample_playbacks)
        <= Cardinality(UsedIds)

\* The pool is set to the sample-based kind and has no asset to play.
NoAssetFart == current_waveform = "Fart" /\ fart_sample = None

\* C13 (as claimed): without the asset, a note_on under Fart adds no voice
\* and no playback.
C13_NoAssetTriggerIsSilent ==
    [][\A id \in Ids :
          (NoAssetFart /\ IsNoteOn(id)) =>
              /\ active_notes_by_id' = active_notes_by_id
              /\ active_sample_playbacks' = active_sample_playbacks]_vars

\* C13 (amended): without the asset, a note_on under Fart adds no playback and
\* falls back to synthesis: it stores under the identifier one fresh voice of
\* the Fart waveform (Attack, elapsed 0, phase 0, the pool's default ADSR, the
\* returned volume as base volume), replacing a voice already there, and
\* leaves the voices of the other identifiers as they were.
C13_NoAssetFallsBackToSynthesis ==
    [][\A id \in Ids :
          (NoAssetFart /\ IsNoteOn(id)) =>
              /\ active_sample_playbacks' = active_sample_playbacks
              /\ DOMAIN active_notes_by_id' = DOMAIN active_notes_by_id \cup {id}
              /\ active_notes_by_id'[id].waveform = "Fart"
              /\ active_notes_by_id'[id].envelope_state = "Attack"
              /\ active_notes_by_id'[id].envelope_time = 0
              /\ active_notes_by_id'[id].phase = 0
              /\ active_notes_by_id'[id].adsr = default_adsr
              /\ active_notes_by_id'[id].base_volume = last_call'.ret
              /\ \A other \in DOMAIN active_notes_by_id \ {id} :
                    active_notes_by_id'[other] = active_notes_by_id[other]]_vars

\* A second trigger of "a" on a Fart pool without asset has just replaced the
\* fallback voice of the first, while the fallback voice of "b" plays on.
C13_Witness ==
    /\ NoAssetFart
    /\ last_call.op = "note_on"
    /\ last_call.id = "a"
    /\ Len(press_history["a"]) = 2
    /\ active_sample_playbacks = << >>
    /\ DOMAIN active_notes_by_id = {"a", "b"}
    /\ active_notes_by_id["a"].waveform = "Fart"
    /\ active_notes_by_id["a"].envelope_state = "Attack"
    /\ active_notes_by_id["a"].base_volume = last_call.ret
    /\ active_notes_by_id["b"].envelope_state = "Sustain"

\* The ADSR parameters C14 is about: no negative time, sustain in [0,1].
Sane(adsr) ==
    /\ adsr.attack_time >= 0
    /\ adsr.decay_time >= 0
    /\ adsr.release_time >= 0
    /\ adsr.sustain_level \in 0..1000

\* C14: every multiplier update_envelope has returned for a voice whose times
\* are not negative and whose sustain level is in [0,1] lies in [0,1].
C14_MultiplierInUnitRange ==
    \A id \in DOMAIN ticked :
        Sane(ticked[id].before.adsr) => ticked[id].multiplier \in 0..1000

\* The last tick found "a" on its release ramp, released while decaying, and
\* returned a value strictly between 0 and the sustain level.
C14_Witness ==
    /\ last_call.op = "generate_sample"
    /\ "a" \in DOMAIN ticked
    /\ Sane(ticked["a"].before.adsr)
    /\ ticked["a"].before.envelope_state = "Release"
    /\ ticked["a"].before.envelope_time > 0
    /\ ticked["a"].multiplier > 0
    /\ ticked["a"].multiplier < ticked["a"].before.adsr.sustain_level

\* C15: a tick of a voice in Attack whose advanced time has reached attack_time
\* leaves it in Decay with time 0 and returns 1.0, otherwise leaves it in Attack
\* and returns (time/attack_time)^2; a tick of a voice in Decay whose advanced
\* time has reached decay_time leaves it in Sustain with time 0 and returns
\* sustain_level, otherwise leaves it in Decay and returns
\* 1 - (1 - sustain_level) * (time/decay_time)^2.
C15_AttackDecayTimeline ==
    [][generate_sample =>
          \A id \in DOMAIN active_notes_by_id :
              LET before == active_notes_by_id[id]
                  after == active_notes_by_id'[id]
                  time == Acc(before.envelope_time, Dt(sample_rate))
                  returned == ticked'[id].multiplier
              IN /\ before.envelope_state = "Attack" =>
                       IF time >= before.adsr.attack_time
                       THEN /\ after.envelope_state = "Decay"
                            /\ after.envelope_time = 0
                            /\ returned = 1000
                       ELSE /\ after.envelope_state = "Attack"
                            /\ after.envelope_time = time
                            /\ returned * before.adsr.attack_time * before.adsr.attack_time
                                   <= time * time * 1000
                            /\ (returned + 1) * before.adsr.attack_time * before.adsr.attack_time
                                   > time * time * 1000
                 /\ before.envelope_state = "Decay" =>
                       IF time >= before.adsr.decay_time
                       THEN /\ after.envelope_state = "Sustain"
                            /\ after.envelope_time = 0
                            /\ returned = before.adsr.sustain_level
                       ELSE /\ after.envelope_state = "Decay"
                            /\ after.envelope_time = time
                            /\ returned =
                                   1000 - ((1000 - before.adsr.sustain_level) * time * time)
                                              \div (before.adsr.decay_time
                                                      * before.adsr.decay_time)]_vars

\* The last tick took "a" from Decay to Sustain, returning the sustain level,
\* after a decay of several ticks that followed an attack of several ticks.
C15_Witness ==
    /\ last_call.op = "generate_sample"
    /\ "a" \in DOMAIN active_notes_by_id
    /\ "a" \in DOMAIN ticked
    /\ active_notes_by_id["a"].envelope_state = "Sustain"
    /\ active_notes_by_id["a"].envelope_time = 0
    /\ ticked["a"].before.envelope_state = "Decay"
    /\ ticked["a"].before.envelope_time > 0
    /\ ticked["a"].before.adsr.attack_time > 0
    /\ ticked["a"].multiplier = ticked["a"].before.adsr.sustain_level
    /\ ticked["a"].multiplier = 800
    /\ ticked["a"].previous > 800

\* C16: a generate_sample call that finds a voice in Release whose release_time
\* is 0 removes it and does not mix it.
C16_ZeroReleaseReapedAtOnce ==
    [][generate_sample =>
          \A id \in DOMAIN active_notes_by_id :
              (/\ active_notes_by_id[id].envelope_state = "Release"
               /\ active_notes_by_id[id].adsr.release_time = 0) =>
                  /\ id \notin DOMAIN active_notes_by_id'
                  /\ id \notin last_call'.mixed]_vars

\* The last tick found "a" just released (time 0) with release_time 0, in the
\* middle of its attack, and the voice is gone.
C16_Witness ==
    /\ last_call.op = "generate_sample"
    /\ "a" \notin last_call.mixed
    /\ "a" \notin DOMAIN active_notes_by_id
    /\ "a" \in DOMAIN ticked
    /\ ticked["a"].before.envelope_state = "Release"
    /\ ticked["a"].before.envelope_time = 0
    /\ ticked["a"].before.adsr.release_time = 0
    /\ ticked["a"].before.adsr.attack_time > 0
    /\ ticked["a"].previous \in 1..999
    /\ ticked["a"].multiplier = 0

\* C17: a tick of a voice in Attack with attack_time <= 0 moves it to Decay, a
\* tick of a voice in Decay with decay_time <= 0 moves it to Sustain, and a tick
\* that leaves a voice in Attack or in Decay (the branches that divide by the
\* duration) has a positive duration to divide by.
C17_NoDivisionByNonPositiveTime ==
    [][generate_sample =>
          \A id \in DOMAIN active_notes_by_id :
              LET before == active_notes_by_id[id]
                  after == active_notes_by_id'[id]
              IN /\ (before.envelope_state = "Attack" /\ before.adsr.attack_time <= 0) =>
                       /\ after.envelope_state = "Decay"
                       /\ ticked'[id].multiplier = 1000
                 /\ (before.envelope_state = "Decay" /\ before.adsr.decay_time <= 0) =>
                       /\ after.envelope_state = "Sustain"
                       /\ ticked'[id].multiplier = before.adsr.sustain_level
                 /\ (before.envelope_state = "Attack" /\ after.envelope_state = "Attack") =>
                       before.adsr.attack_time > 0
                 /\ (before.envelope_state = "Decay" /\ after.envelope_state = "Decay") =>
                       before.adsr.decay_time > 0]_vars

\* "a", created with a negative attack_time and a decay_time of 0, was in Decay
\* after its first tick and has reached Sustain by its second.
C17_Witness ==
    /\ last_call.op = "generate_sample"
    /\ "a" \in DOMAIN active_notes_by_id
    /\ "a" \in DOMAIN ticked
    /\ active_notes_by_id["a"].envelope_state = "Sustain"
    /\ ticked["a"].before.envelope_state = "Decay"
    /\ ticked["a"].before.adsr.attack_time < 0
    /\ ticked["a"].before.adsr.decay_time = 0
    /\ ticked["a"].previous = 1000

Abs(x) == IF x < 0 THEN -x ELSE x

\* A voice of the given parameters at elapsed time t of the given state.
CurveNote(adsr, state, t) ==
    [NoteState_new(0, 0, adsr, "Sine", 0) EXCEPT !.envelope_state = state,
                                                  !.envelope_time = t]

\* The value of the attack, decay or release curve at elapsed time t: where the
\* curve starts for t = 0, what update_envelope returns at t otherwise.
CurveValue(adsr, state, t) ==
    CASE state = "Attack" ->
             IF t = 0 THEN 0 ELSE AttackArm(CurveNote(adsr, state, t)).multiplier
      [] state = "Decay" ->
             IF t = 0 THEN 1000 ELSE DecayArm(CurveNote(adsr, state, t)).multiplier
      [] state = "Release" ->
             IF t = 0 THEN adsr.sustain_level
             ELSE ReleaseArm(CurveNote(adsr, state, t)).multiplier

\* The changes of the three curves over one tick of dt.
CurveSteps(adsr, dt) ==
    {Abs(CurveValue(adsr, state, (k + 1) * dt) - CurveValue(adsr, state, k * dt)) :
        state \in {"Attack", "Decay", "Release"}, k \in 0..(AccCap \div dt)}

\* The largest single-tick change of the attack, decay or release curve.
MaxStep(adsr, dt) ==
    CHOOSE largest \in CurveSteps(adsr, dt) :
        \A step \in CurveSteps(adsr, dt) : step <= largest

\* C18 (as claimed): the multiplier of a tick differs from the multiplier of
\* the voice's previous tick (0 before the first) by no more than the largest
\* single-tick change of the voice's attack, decay or release curve (for
\* parameters without negative times).
C18_NoEnvelopeJump ==
    \A id \in DOMAIN ticked :
        Sane(ticked[id].before.adsr) =>
            Abs(ticked[id].multiplier - ticked[id].previous)
                <= MaxStep(ticked[id].before.adsr, Dt(sample_rate))

\* C19 (as claimed): the waveform value of a mixed voice is scaled by
\* base_volume and the envelope multiplier and by nothing else (the third
\* factor is 1), so a voice in Sustain is scaled by base_volume * sustain_level.
C19_SampleIsBaseTimesEnvelope ==
    \A id \in DOMAIN ticked \cap last_call.mixed :
        /\ ticked[id].factors.base_volume = ticked[id].before.base_volume
        /\ ticked[id].factors.envelope = ticked[id].multiplier
        /\ ticked[id].factors.hold = 10000
        /\ ticked[id].before.envelope_state = "Sustain" =>
               ticked[id].factors.envelope = ticked[id].before.adsr.sustain_level

\* C19 (amended): the waveform value of a mixed voice is scaled by base_volume,
\* by the envelope multiplier of the tick (sustain_level for a voice in
\* Sustain) and by the voice's hold volume as this tick's smoothing leaves it:
\* a value in [0.1, 1] at most 0.5 / sample_rate away from the hold volume of
\* the tick before, and 1 as long as the wall clock is less than 0.5 s past
\* the voice's creation.
C19_SampleIsBaseTimesEnvelopeTimesHold ==
    [][generate_sample =>
          \A id \in last_call'.mixed :
              LET before == active_notes_by_id[id]
                  factors == ticked'[id].factors
              IN /\ factors.base_volume = before.base_volume
                 /\ factors.envelope = ticked'[id].multiplier
                 /\ before.envelope_state = "Sustain" =>
                        factors.envelope = before.adsr.sustain_level
                 /\ factors.hold = active_notes_by_id'[id].current_hold_volume
                 /\ factors.hold \in 1000..10000
                 /\ Abs(factors.hold - before.current_hold_volume) <= 5000 \div sample_rate
                 /\ now - before.start_time < 500 => factors.hold = 10000]_vars

\* The last tick mixed "a", which was and is in Sustain, at a hold volume
\* that has begun to fall from 1 towards its target.
C19_Witness ==
    /\ last_call.op = "generate_sample"
    /\ "a" \in last_call.mixed
    /\ ticked["a"].before.envelope_state = "Sustain"
    /\ active_notes_by_id["a"].envelope_state = "Sustain"
    /\ ticked["a"].factors.envelope = 800
    /\ ticked["a"].factors.hold < 10000
    /\ ticked["a"].factors.hold > active_notes_by_id["a"].target_hold_volume

\* C20 (as claimed): what the next call returns does not depend on how much
\* wall-clock time passes before it: the discount a note_on applies and the
\* factors a voice's sample is scaled by are the same now and one clock step
\* later.
C20_IndependentOfWallClock ==
    \A d \in ClockSteps :
        /\ \A id \in KeyIds :
              record_press(press_history[id], now).multiplier
                  = record_press(press_history[id], now + d).multiplier
        /\ \A id \in DOMAIN active_notes_by_id :
              final_sample_factors(active_notes_by_id[id], 1000, sample_rate, now)
                  = final_sample_factors(active_notes_by_id[id], 1000, sample_rate, now + d)

\* C21: set_waveform and set_volume change only the pool's current waveform
\* and master volume: every voice already in the mapping (frequency,
\* base_volume, phase, envelope state and time, ADSR copy, waveform kind) and
\* every active sample playback are left as they were, and so is the rest of
\* the pool.
C21_SettersLeaveVoicesAlone ==
    [][/\ SetWaveform =>
            UNCHANGED <<active_notes_by_id, active_sample_playbacks, master_volume,
                        sample_rate, default_adsr, press_history, fart_sample,
                        global_time>>
       /\ SetVolume =>
            UNCHANGED <<active_notes_by_id, active_sample_playbacks, current_waveform,
                        sample_rate, default_adsr, press_history, fart_sample,
                        global_time>>]_vars

\* A setter has just run on a pool that holds a voice of the other waveform
\* kind and an active playback, with the master volume moved to 0.
C21_Witness ==
    /\ last_call = NoCall
    /\ "a" \in DOMAIN active_notes_by_id
    /\ active_notes_by_id["a"].waveform = "Electronic"
    /\ active_notes_by_id["a"].envelope_time > 0
    /\ current_waveform = "Fart"
    /\ master_volume = 0
    /\ active_sample_playbacks # << >>

\* C22 (as claimed): in every reachable state the master volume lies in [0,1],
\* whether it came from the constructor or from set_volume, and so every voice
\* note_on created from a volume in [0,1] has its base_volume in [0,1].
C22_MasterVolumeInUnitRange ==
    /\ master_volume \in 0..1000
    /\ \A id \in DOMAIN active_notes_by_id :
          active_notes_by_id[id].base_volume \in 0..(1000 * 1000 * 1000)

\* C23 (as claimed): after every voice tick the phase accumulator lies in
\* [0,1), also for a frequency at or above the sample rate.
C23_PhaseInUnitRange ==
    \A id \in DOMAIN active_notes_by_id :
        active_notes_by_id[id].phase \in 0..999

\* The limiter is triggered on `id` in this step.
IsRecordPress(id) ==
    /\ record_press_and_get_volume_multiplier(id, MaxHistory)
    /\ trigger_log'[id] = Append(trigger_log[id], now)

\* The earlier triggers of `id` that lie within the window at `instant`.
RecentCount(id, instant) ==
    Cardinality({i \in 1..Len(trigger_log[id]) :
                    instant - trigger_log[id][i] <= window_duration})

\* C24: the discount returned for a trigger is 0.7^n, n the number of earlier
\* triggers of the same identifier within the 500 ms window at the call, the
\* current trigger being recorded only afterwards; the first trigger of an
\* identifier and a trigger after an idle time longer than the window return
\* exactly 1.0.
C24_DiscountIsPowerOfRecentCount ==
    [][\A id \in Ids :
          IsRecordPress(id) =>
              /\ last_call'.ret = Powf(RecentCount(id, now))
              /\ press_history'[id][Len(press_history'[id])] = now
              /\ Len(press_history'[id]) = RecentCount(id, now) + 1
              /\ (\/ trigger_log[id] = << >>
                  \/ now - trigger_log[id][Len(trigger_log[id])] > window_duration)
                     => last_call'.ret = 1000]_vars

\* The third trigger of "a" returned 1.0: the two before it, the second of
\* them discounted, were older than the window.
C24_Witness ==
    /\ last_call.op = "record_press"
    /\ last_call.id = "a"
    /\ last_call.ret = 1000
    /\ Len(trigger_log["a"]) = 3
    /\ trigger_log["a"][2] - trigger_log["a"][1] <= window_duration
    /\ trigger_log["b"] # << >>

\* The history a limiter holds for an identifier when it is given the
\* triggers of `triggers` and no others.
RECURSIVE SoloHistory(_)
SoloHistory(triggers) ==
    IF triggers = << >> THEN << >>
    ELSE record_press(SoloHistory(SubSeq(triggers, 1, Len(triggers) - 1)),
                      triggers[Len(triggers)]).history

\* C25: triggers on one identifier never change the discount returned for
\* another: each discount returned for an identifier is the one a limiter
\* returns that was given that identifier's triggers only, and a trigger
\* leaves the histories of the other identifiers as they were.
C25_IdentifiersIndependent ==
    [][\A id \in Ids :
          IsRecordPress(id) =>
              /\ last_call'.ret
                     = record_press(SoloHistory(trigger_log[id]), now).multiplier
              /\ \A other \in Ids \ {id} :
                     press_history'[other] = press_history[other]]_vars

\* "b" was triggered for the first time and got 1.0 while "a" had two
\* triggers in its window, the last at this very instant.
C25_Witness ==
    /\ last_call.op = "record_press"
    /\ last_call.id = "b"
    /\ last_call.ret = 1000
    /\ Len(trigger_log["b"]) = 1
    /\ Len(press_history["a"]) = 2
    /\ press_history["a"][2] = now

\* The press of this step comes less than min_interval after the press before
\* it on the same identifier, for either limiter.
RapidRecordPress(id) ==
    /\ last_call'.id = id
    /\ press_history[id] # << >>
    /\ now - press_history[id][Len(press_history[id])] < min_interval

RapidKeyPress(keycode) ==
    /\ last_call'.id = keycode
    /\ keycode \in DOMAIN key_rate_limiter.last_press_times
    /\ now - key_rate_limiter.last_press_times[keycode] < min_interval

\* What the press before this one returned for the identifier.
PreviousMultiplier(id) == Powf(Len(press_history[id]) - 1)

PreviousKeyMultiplier(keycode) ==
    volume_reduction(key_rate_limiter.press_counts[keycode])

\* C26 (as claimed): for both limiters the multiplier never exceeds 1, and
\* within a run of rapid presses of one identifier, each less than 150 ms after
\* the one before, every press returns a multiplier no larger than the press
\* before it.
C26_RapidRunNeverLouder ==
    [][/\ RunRecordPress =>
            /\ last_call'.ret <= 1000
            /\ \A id \in KeyIds :
                   RapidRecordPress(id) => last_call'.ret <= PreviousMultiplier(id)
       /\ KeyPress =>
            /\ last_call'.ret <= 1000
            /\ \A keycode \in KeyIds :
                   RapidKeyPress(keycode) =>
                       last_call'.ret <= PreviousKeyMultiplier(keycode)]_vars

\* C26 (amended): for both limiters the multiplier never exceeds 1 and does
\* not increase with the count it is computed from (0.7^n; 1, 0.7, 0.4, 0.2,
\* 0.2, 0). A press of a KeyRateLimiter run returns no more than the press
\* before it; a press given to the RateLimiter does so as long as no trigger in
\* the history has aged out of the window, rapid or not.
C26_NeverLouderWhileCountGrows ==
    [][/\ \A n \in 0..MaxRun :
            /\ Powf(n + 1) <= Powf(n)
            /\ volume_reduction(n + 2) <= volume_reduction(n + 1)
       /\ RunRecordPress =>
            /\ last_call'.ret <= 1000
            /\ \A id \in KeyIds :
                   (/\ last_call'.id = id
                    /\ press_history[id] # << >>
                    /\ Retain(press_history[id], now) = press_history[id])
                       => last_call'.ret <= PreviousMultiplier(id)
       /\ KeyPress =>
            /\ last_call'.ret <= 1000
            /\ \A keycode \in KeyIds :
                   RapidKeyPress(keycode) =>
                       last_call'.ret <= PreviousKeyMultiplier(keycode)]_vars

\* The sixth press of a run on "a" was given to the RateLimiter with the five
\* before it still in the window, and the KeyRateLimiter has reached silence
\* on its sixth rapid press.
C26_Witness ==
    /\ last_call.op = "record_press"
    /\ last_call.ret = Powf(5)
    /\ Len(press_history["a"]) = 6
    /\ press_history["a"][6] - press_history["a"][5] < min_interval
    /\ press_history["a"][6] > press_history["a"][1]
    /\ "a" \in DOMAIN key_rate_limiter.press_counts
    /\ key_rate_limiter.press_counts["a"] = 6

\* C27 (as claimed): the trigger history kept for an identifier has a fixed
\* capacity: however many triggers arrive inside one window (up to MaxHistory
\* of them here), the history stays shorter than that.
C27_HistoryCapacityBounded ==
    \A id \in Ids : Len(press_history[id]) < MaxHistory

\* The frame the position of `time` falls in lies past the end of the buffer.
PastEnd(sample, time, target_sample_rate) ==
    /\ time >= 0
    /\ (SamplePosNum(sample, time) \div SamplePosDen(target_sample_rate)) * sample.channels
           >= Len(sample.samples)

\* C28 (as claimed): get_sample_at_time never indexes the PCM buffer at or
\* beyond its length, for every time, rate pair, channel count and buffer
\* length, and for every position past the end of the buffer it returns 0.
C28_NeverReadsPastEnd ==
    sampled.op = "get_sample_at_time" =>
        /\ \A index \in sampled.outcome.reads :
               index \in 0..(Len(sample_playback[1].sample.samples) - 1)
        /\ PastEnd(sample_playback[1].sample, sampled.time, sample_rate) =>
               sampled.outcome = Returned(0, {})

\* The elapsed time of the last call has reached the duration of the buffer at
\* the target rate, len / (rate * channels) * (target / rate) seconds.
DurationReached(playback, elapsed, target_sample_rate) ==
    elapsed * playback.sample.sample_rate * playback.sample.sample_rate
            * playback.sample.channels
        >= Len(playback.sample.samples) * 1000 * target_sample_rate

Elapsed == sampled.time - sample_playback[1].start_time

\* What get_current_sample and is_finished return outside the buffer.
SilentOutside ==
    /\ (/\ sampled.op = "get_current_sample"
        /\ \/ ~sample_playback[1].active
           \/ sampled.time < sample_playback[1].start_time
           \/ DurationReached(sample_playback[1], Elapsed, sample_rate))
           => sampled.outcome = Returned(0, {})
    /\ sampled.op = "is_finished" =>
           (sampled.finished <=>
               (Elapsed >= 0 /\ DurationReached(sample_playback[1], Elapsed, sample_rate)))

\* get_current_sample was called at elapsed 0 on an active playback of a
\* non-empty buffer.
SampledAtStart ==
    /\ sampled.op = "get_current_sample"
    /\ sample_playback[1].active
    /\ Elapsed = 0
    /\ sample_playback[1].sample.samples # << >>

\* C29 (as claimed): get_current_sample returns exactly 0 when the playback is
\* inactive, before its start, and from the buffer's duration at the target
\* rate on; is_finished is true exactly when elapsed >= 0 and elapsed >= that
\* duration; at elapsed 0 of a non-empty buffer the result is the first sample
\* times volume.
C29_FirstSampleAtStart ==
    /\ SilentOutside
    /\ SampledAtStart =>
           sampled.outcome.value
               = (sample_playback[1].sample.samples[1] * sample_playback[1].volume)
                     \div 1000

\* The first frame of a buffer, mixed down to mono.
FirstFrame(sample) ==
    IF sample.channels = 2 /\ Len(sample.samples) >= 2
    THEN (sample.samples[1] + sample.samples[2]) \div 2
    ELSE sample.samples[1]

\* C29 (amended): as claimed outside the buffer; at elapsed 0 of a non-empty
\* buffer the result is the first frame times volume: the first sample of a
\* mono buffer, the mean of the first two samples of a stereo buffer.
C29_FirstFrameAtStart ==
    /\ SilentOutside
    /\ SampledAtStart =>
           sampled.outcome.value
               = (FirstFrame(sample_playback[1].sample) * sample_playback[1].volume)
                     \div 1000

\* A stereo playback started at 100 ms was sampled at its start and returned
\* the mean of its first two samples, 0.75, times the volume 0.8, having read
\* the first frame and the one it interpolates towards.
C29_Witness ==
    /\ SampledAtStart
    /\ sample_playback[1].start_time = 100
    /\ sample_playback[1].sample.channels = 2
    /\ Len(sample_playback[1].sample.samples) = 5
    /\ sampled.outcome.value = 600
    /\ sampled.outcome.reads = {0, 1, 2, 3}

\* C30: stop is one-way: once a playback is inactive no operation makes it
\* active again, and get_current_sample returns 0 for every time, before,
\* inside or after the buffer.
C30_StopIsOneWay ==
    [][~sample_playback[1].active =>
          /\ ~sample_playback'[1].active
          /\ (sampled'.op = "get_current_sample" => sampled'.outcome = Returned(0, {}))
          /\ \A current_time \in SampleTimes, overflow_checks \in BOOLEAN :
                 get_current_sample(sample_playback'[1], current_time, sample_rate,
                                    overflow_checks) = Returned(0, {})]_vars

\* A stopped playback of the five-sample buffer was sampled inside the buffer
\* and returned 0.
C30_Witness ==
    /\ sample_playback # None
    /\ ~sample_playback[1].active
    /\ sampled.op = "get_current_sample"
    /\ Len(sample_playback[1].sample.samples) = 5
    /\ Elapsed = 100
    /\ ~DurationReached(sample_playback[1], Elapsed, sample_rate)
    /\ sampled.outcome.value = 0

\* The playback's elapsed time at `time` has reached its duration.
PlaybackOver(playback, time) ==
    /\ time - playback.start_time >= 0
    /\ DurationReached(playback, time - playback.start_time, sample_rate)

RECURSIVE Sum(_, _, _)
Sum(samples, first, count) ==
    IF count = 0 THEN 0 ELSE samples[first] + Sum(samples, first + 1, count - 1)

MonoFrame(sample, k) ==
    Sum(sample.samples, k * sample.channels + 1, sample.channels) \div sample.channels

\* The frame the position of `time` falls in, and the thousandths it lies
\* past that frame.
FrameOf(sample, time, target_sample_rate) ==
    SamplePosNum(sample, time) \div SamplePosDen(target_sample_rate)

FracOf(sample, time, target_sample_rate) ==
    ((SamplePosNum(sample, time) % SamplePosDen(target_sample_rate)) * 1000)
        \div SamplePosDen(target_sample_rate)

\* C32 (as claimed): for a position between frames i and i+1 of the buffer
\* get_sample_at_time returns mono(i) + (mono(i+1) - mono(i)) * frac, mono(k)
\* being the average of all channel samples of frame k, for every channel
\* count; at the last frame it returns mono(last).
C32_InterpolatesMonoFrames ==
    LET sample == sample_playback[1].sample
        frames == Len(sample.samples) \div sample.channels
        i == FrameOf(sample, sampled.time, sample_rate)
        frac == FracOf(sample, sampled.time, sample_rate)
    IN (sampled.op = "get_sample_at_time" /\ sampled.time >= 0 /\ i < frames) =>
           sampled.outcome.value =
               IF i + 1 < frames
               THEN MonoFrame(sample, i)
                        + ((MonoFrame(sample, i + 1) - MonoFrame(sample, i)) * frac)
                              \div 1000
               ELSE MonoFrame(sample, i)

\* The user's log callback is executing (CodeBeatsEngine::log holds the
\* callback's mutex around it).
CallbackRunning == input_pc \in {"log", "trigger_log"}

\* C33: the log callback, which runs under a second lock, is never invoked
\* while the input thread holds the pool's lock.
C33_NoLogUnderPoolLock ==
    CallbackRunning => mutex # "input"

\* C35: a voice created by note_on carries the default ADSR preset of the
\* waveform kind the pool is set to at that moment, also after set_waveform
\* has changed the kind.
C35_VoiceCarriesPresetOfCurrentKind ==
    [][\A id \in KeyIds :
          (NoteOn /\ last_call'.id = id /\ id \in DOMAIN active_notes_by_id'
                  /\ active_notes_by_id'[id].envelope_state = "Attack"
                  /\ active_notes_by_id'[id].envelope_time = 0)
              => active_notes_by_id'[id].adsr = DefaultADSR(current_waveform)]_vars

\* check_key_press or start_note is called for `keycode` in this step.
IsKeyPress(keycode) ==
    /\ (KeyPress \/ StartNote)
    /\ last_call'.id = keycode

\* The press of `keycode` at this instant comes less than 150 ms after the
\* previous press of the same key.
RapidPress(keycode) ==
    /\ keycode \in DOMAIN key_rate_limiter.last_press_times
    /\ now - key_rate_limiter.last_press_times[keycode] < 150

\* What the claim says a press returns: 1.0, or by the press's place in its run.
ClaimedMultiplier(keycode) ==
    IF RapidPress(keycode)
    THEN CASE key_rate_limiter.press_counts[keycode] + 1 = 2 -> 700
           [] key_rate_limiter.press_counts[keycode] + 1 = 3 -> 400
           [] key_rate_limiter.press_counts[keycode] + 1 = 4 -> 200
           [] key_rate_limiter.press_counts[keycode] + 1 = 5 -> 200
           [] OTHER -> 0
    ELSE 1000

\* C39: a press of a key less than 150 ms after its previous press increments
\* the key's count and yields 0.7, 0.4, 0.2, 0.2 for the second to the fifth
\* press of the run and 0.0 afterwards; a press 150 ms or more after the
\* previous one yields 1.0 and sets the count to 1; and start_note given a
\* multiplier of at most 0.01 returns 0.0 and leaves the voice map as it was.
C39_RapidPressesFadeOut ==
    [][\A keycode \in KeyIds :
          IsKeyPress(keycode) =>
              /\ key_rate_limiter'.press_counts[keycode] =
                     IF RapidPress(keycode)
                     THEN key_rate_limiter.press_counts[keycode] + 1 ELSE 1
              /\ key_rate_limiter'.last_press_times[keycode] = now
              /\ last_call'.op = "check_key_press" =>
                     last_call'.ret = ClaimedMultiplier(keycode)
              /\ (last_call'.op = "start_note" /\ ClaimedMultiplier(keycode) <= 10) =>
                     /\ last_call'.ret = 0
                     /\ active_notes' = active_notes
              /\ (last_call'.op = "start_note" /\ ClaimedMultiplier(keycode) > 10) =>
                     /\ keycode \in DOMAIN active_notes'
                     /\ active_notes'[keycode].start_time = now]_vars

\* The sixth rapid press of a key went through start_note: it returned 0.0
\* and the voice of the fifth press is still the one stored under the key.
C39_Witness ==
    /\ now = MaxStartTime
    /\ last_call.op = "start_note"
    /\ last_call.ret = 0
    /\ "a" \in DOMAIN key_rate_limiter.press_counts
    /\ key_rate_limiter.press_counts["a"] = 6
    /\ "a" \in DOMAIN active_notes
    /\ active_notes["a"].start_time < now
    /\ active_notes["a"].base_volume > 0

\* The attenuation schedule as claimed: the target by the age of the voice in
\* ms, units of 1e-4.
ClaimedTarget(age) ==
    IF age < 500 THEN 10000
    ELSE IF age < 1000 THEN 8000
    ELSE IF age < 2000 THEN 6000
    ELSE IF age < 3000 THEN 4000
    ELSE IF age < 5000 THEN 2000
    ELSE 1000

\* C40: on every tick of a voice its target hold volume is the step function
\* of its age (1.0, 0.8, 0.6, 0.4, 0.2, 0.1 at 0.5, 1, 2, 3, 5 s), which
\* never rises; current_hold_volume moves toward the target by at most
\* 0.5 / sample_rate and not past it, stays within [0.1, 1.0] and never
\* increases.
C40_HoldVolumeFollowsSchedule ==
    [][\A id \in KeyIds :
          (/\ GenerateSample
           /\ id \in DOMAIN active_notes_by_id
           /\ id \in DOMAIN active_notes_by_id') =>
              LET before == active_notes_by_id[id]
                  after == active_notes_by_id'[id]
              IN /\ after.target_hold_volume = ClaimedTarget(now - before.start_time)
                 /\ after.target_hold_volume <= before.target_hold_volume
                 /\ before.current_hold_volume - after.current_hold_volume
                        <= 5000 \div sample_rate
                 /\ after.current_hold_volume <= before.current_hold_volume
                 /\ after.current_hold_volume >= after.target_hold_volume
                 /\ after.current_hold_volume >= 1000
                 /\ after.current_hold_volume <= 10000]_vars

\* A voice held for more than five seconds has been ticked down to the floor
\* of 0.1 after lagging behind its target.
C40_Witness ==
    /\ last_call.op = "generate_sample"
    /\ "a" \in DOMAIN active_notes_by_id
    /\ now - active_notes_by_id["a"].start_time >= 5000
    /\ active_notes_by_id["a"].target_hold_volume = 1000
    /\ active_notes_by_id["a"].current_hold_volume = 1000
    /\ active_notes_by_id["a"].envelope_state = "Sustain"
    /\ sample_rate = 4

\* The letter inputs up to and including the i-th of `letters` end with the
\* target sequence.
SpellsAt(letters, i) ==
    /\ i >= Len(target_sequence)
    /\ \A j \in 1..Len(target_sequence) :
           letters[i - Len(target_sequence) + j].ch = target_sequence[j]

\* C36: process_input returns true only when the most recent 22 letter inputs
\* spell the target sequence, so never on a proper prefix of it, and for a
\* key that is not a letter it returns false and leaves input_history,
\* recently_triggered and reset_counter as they were.
C36_DetectionIsSound ==
    [][/\ \A i \in 1..Len(key_log') : key_log'[i].ret => SpellsAt(key_log', i)
       /\ TypeOther =>
              /\ last_call'.ret = 0
              /\ sequence_detector' = sequence_detector
              /\ key_log' = key_log]_vars

\* A letter of noise and all but the last letter of the sequence have been
\* typed, 22 letters that triggered nothing, and a key that is not a letter
\* was pressed last.
C36_Witness ==
    /\ last_call.op = "process_input"
    /\ last_call.id \in OtherKeys
    /\ Len(key_log) = 22
    /\ key_log[1].ch = "x"
    /\ \A j \in 1..21 : key_log[1 + j].ch = target_sequence[j]
    /\ \A i \in 1..22 : ~key_log[i].ret
    /\ ~sequence_detector.recently_triggered
    /\ Len(sequence_detector.input_history) = 22

\* No detection among the 22 letter inputs before the i-th of key_log.
QuietBefore(i) ==
    \A j \in (i - Len(target_sequence))..(i - 1) : j >= 1 => ~key_log[j].ret

\* C37: whenever the letter inputs end with the whole target sequence,
\* whatever letters (and other keys) came before, process_input returned true
\* on its last letter, unless a detection fired within the 22 letter inputs
\* before that letter.
C37_DetectionIsComplete ==
    \A i \in 1..Len(key_log) :
        (SpellsAt(key_log, i) /\ QuietBefore(i)) => key_log[i].ret

\* The sequence typed after more noise than the history holds, and after a
\* near miss, was detected on its last letter.
C37_Witness ==
    /\ Len(key_log) = 51 + 21 + 22
    /\ \A i \in 1..51 : key_log[i].ch = "x"
    /\ SpellsAt(key_log, Len(key_log))
    /\ key_log[Len(key_log)].ret
    /\ Len(sequence_detector.input_history) = MAX_HISTORY_LENGTH
    /\ keys_to_type = << >>

\* C38: after a detection none of the next 22 letter inputs is detected, also
\* when they spell the sequence a second time, and the 23rd letter input
\* after it is detected when it completes the sequence.
C38_NoDetectionForNext22 ==
    \A i \in 1..Len(key_log) :
        key_log[i].ret =>
            /\ \A j \in (i + 1)..(i + Len(target_sequence)) :
                   j <= Len(key_log) => ~key_log[j].ret
            /\ (/\ i + Len(target_sequence) + 1 <= Len(key_log)
                /\ SpellsAt(key_log, i + Len(target_sequence) + 1))
                   => key_log[i + Len(target_sequence) + 1].ret

\* The sequence was typed twice in a row and detected once.
C38_Witness ==
    /\ Len(key_log) = 44
    /\ SpellsAt(key_log, 22)
    /\ SpellsAt(key_log, 44)
    /\ key_log[22].ret
    /\ ~key_log[44].ret
    /\ sequence_detector.recently_triggered
    /\ sequence_detector.reset_counter = 22

\* C34 (as claimed): for every waveform kind, every phase in [0, 1), every
\* frequency in (0, sample_rate / 2] and every positive sample rate, the
\* sample generate_sample returns is finite and within [-2, 2].
C34_SampleFiniteAndBounded ==
    wave_sample.op = "generate_sample" =>
        /\ ~wave_sample.outcome.nan
        /\ wave_sample.outcome.bound <= 2000

====
